---- MODULE Spec2Model ----
(***************************************************************************)
(* Model of the repository assistant's orchestration core:                 *)
(*   src/src/agent_orchestrator.py  (AgentOrchestrator)                    *)
(*   src/src/session_manager.py     (SessionManager)                       *)
(*   src/src/tool_gateway.py        (ToolGateway, the collaborator)        *)
(*                                                                         *)
(* A text is a sequence of atoms.  An atom is a one-character string       *)
(* (" ", "\n", "a", "-", ...) or an indivisible word (the fence, "diff", a  *)
(* heading phrase such as "Next Steps").  None stands for Python's None.   *)
(***************************************************************************)
EXTENDS Integers, Sequences, FiniteSets, TLC

\* Optional values: Python's None and a present value
None == <<>>
Some(x) == <<x>>

\* dict.get(k) and dict.get(k, default) on a map (a function on its keys)
Get(m, k) == IF k \in DOMAIN m THEN Some(m[k]) ELSE None
GetOr(m, k, d) == IF k \in DOMAIN m THEN m[k] ELSE d

(***************************************************************************)
(* Text helpers: str.strip, str.splitlines, "\n".join, slicing.            *)
(***************************************************************************)
NL == "\n"
SP == " "

\* Python str.isspace for the atoms of the model
IsSpace(c) == c \in {SP, NL}

\* text[i:j] with 1-based inclusive bounds, empty when i > j
Slice(s, i, j) == IF i > j THEN <<>> ELSE SubSeq(s, i, j)

RECURSIVE LStrip(_)
LStrip(s) == IF s # <<>> /\ IsSpace(Head(s)) THEN LStrip(Tail(s)) ELSE s

RECURSIVE RStrip(_)
RStrip(s) ==
    IF s # <<>> /\ IsSpace(s[Len(s)]) THEN RStrip(SubSeq(s, 1, Len(s) - 1)) ELSE s

\* a text left as it is
NotStripped(s) == s

\* str.strip()
Strip(s) == RStrip(LStrip(s))

\* the test of the empty text only
IsEmpty(s) == s = <<>>

\* the test (not s.strip())
IsBlank(s) == Strip(s) = <<>>

\* str.splitlines(): split at every "\n"; a trailing "\n" opens no last line
RECURSIVE SplitLinesFrom(_, _)
SplitLinesFrom(s, cur) ==
    IF s = <<>> THEN (IF cur = <<>> THEN <<>> ELSE <<cur>>)
    ELSE IF Head(s) = NL THEN <<cur>> \o SplitLinesFrom(Tail(s), <<>>)
    ELSE SplitLinesFrom(Tail(s), Append(cur, Head(s)))

SplitLines(s) == SplitLinesFrom(s, <<>>)

\* the first of the lines only
FirstLine(ls) == IF ls = <<>> THEN <<>> ELSE ls[1]

\* "\n".join(lines)
RECURSIVE JoinLines(_)
JoinLines(ls) ==
    IF ls = <<>> THEN <<>>
    ELSE IF Len(ls) = 1 THEN ls[1]
    ELSE ls[1] \o <<NL>> \o JoinLines(Tail(ls))

\* "".join(parts)
RECURSIVE Concat(_)
Concat(ts) == IF ts = <<>> THEN <<>> ELSE Head(ts) \o Concat(Tail(ts))

(***************************************************************************)
(* Response composition: _extract_patch, _extract_next_actions,            *)
(* _compose_response.                                                      *)
(***************************************************************************)
\* the three-backquote fence, one indivisible atom
FENCE == "<fence>"
DIFFWORD == "diff"

\* the opener <fence>diff\n begins at position i
FenceOpenAt(t, i) ==
    /\ i >= 1 /\ i + 2 <= Len(t)
    /\ t[i] = FENCE /\ t[i + 1] = DIFFWORD /\ t[i + 2] = NL

\* matches of <fence>diff\n(.*?)<fence> under DOTALL: <<i, j>> with the opener at i and the
\* first closing fence after it at j
FenceMatches(t) ==
    {m \in (1..Len(t)) \X (1..Len(t)) :
        /\ FenceOpenAt(t, m[1])
        /\ m[2] >= m[1] + 3
        /\ t[m[2]] = FENCE
        /\ \A k \in (m[1] + 3)..(m[2] - 1) : t[k] # FENCE}

\* line.startswith("-") or line.startswith("+")
StartsWithDiffSign(line) == Len(line) >= 1 /\ line[1] \in {"-", "+"}

\* line.startswith("--- ") or line.startswith("+++ ")
StartsWithDiffHeader(line) ==
    /\ Len(line) >= 4
    /\ SubSeq(line, 1, 4) \in {<<"-", "-", "-", SP>>, <<"+", "+", "+", SP>>}

\* AgentOrchestrator._extract_patch: [patch, rest]
ExtractPatch(text) ==
    IF FenceMatches(text) # {}
    THEN LET m == CHOOSE x \in FenceMatches(text) :
                      \A y \in FenceMatches(text) : x[1] <= y[1]
             patch == Slice(text, m[1] + 3, m[2] - 1)
             cleaned == Slice(text, 1, m[1] - 1) \o Slice(text, m[2] + 1, Len(text))
         IN  [patch |-> Some(Strip(patch)), rest |-> Strip(cleaned)]
    ELSE LET lines == SplitLines(text)
             hdrs == {k \in 1..Len(lines) : StartsWithDiffHeader(lines[k])}
         IN  IF hdrs # {}
             THEN LET k == CHOOSE x \in hdrs : \A y \in hdrs : x <= y
                  IN  [patch |-> Some(JoinLines(Slice(lines, k, Len(lines)))),
                       rest |-> JoinLines(Slice(lines, 1, k - 1))]
             ELSE [patch |-> None, rest |-> text]

\* the phrases of (?:Next Actions?|Next Steps?|Suggested Steps?|Recommendations?)
\* under re.IGNORECASE, each an indivisible atom of the model
HeadingAtoms ==
    {"Next Actions", "Next Action", "Next Steps", "Next Step",
     "Suggested Steps", "Suggested Step", "Recommendations", "Recommendation",
     "next actions", "NEXT STEPS"}

\* [-*\d<bullet>]; the atom "BULLET" stands for the glyph U+2022
IsItemMarker(c) == c \in {"-", "*", "1", "2", "3", "BULLET"}

\* [-*\d<bullet>\.\)]
IsStripMarker(c) == IsItemMarker(c) \/ c \in {".", ")"}

\* any line at position p, a list item or not
AnyLineAt(t, p) == p <= Len(t)

\* [ \t]*[-*\d<bullet>] matches at position p
ItemLineAt(t, p) ==
    \E q \in p..Len(t) :
        /\ IsItemMarker(t[q])
        /\ \A k \in p..(q - 1) : t[k] = SP

\* the text between the heading and the list matches \s*:?\s*\n
HeadingGapOk(s) ==
    /\ s # <<>>
    /\ s[Len(s)] = NL
    /\ \A k \in 1..Len(s) : IsSpace(s[k]) \/ s[k] = ":"
    /\ Cardinality({k \in 1..Len(s) : s[k] = ":"}) <= 1

\* first position after the greedy run (?:[ \t]*[-*\d<bullet>].*\n?)+ that starts at p
RECURSIVE BlockEnd(_, _)
BlockEnd(t, p) ==
    IF p > Len(t) \/ ~ItemLineAt(t, p) THEN p
    ELSE LET nls == {k \in p..Len(t) : t[k] = NL}
         IN  IF nls = {} THEN Len(t) + 1
             ELSE BlockEnd(t, (CHOOSE x \in nls : \A y \in nls : x <= y) + 1)

\* matches of the next-actions pattern: <<h, p>>, heading at h, list from p
NextActionMatches(t) ==
    {m \in (1..Len(t)) \X (1..Len(t)) :
        /\ t[m[1]] \in HeadingAtoms
        /\ m[2] > m[1]
        /\ HeadingGapOk(Slice(t, m[1] + 1, m[2] - 1))
        /\ ItemLineAt(t, m[2])}

\* skip a leading run of [ \t]
RECURSIVE DropBlanks(_)
DropBlanks(s) == IF s # <<>> /\ Head(s) = SP THEN DropBlanks(Tail(s)) ELSE s

\* skip a leading run of [-*\d<bullet>\.\)]
RECURSIVE DropMarkers(_)
DropMarkers(s) == IF s # <<>> /\ IsStripMarker(Head(s)) THEN DropMarkers(Tail(s)) ELSE s

\* the line trimmed, its marker kept
KeepItemMarker(line) == Strip(line)

\* re.sub(r"^[ \t]*[-*\d<bullet>\.\)]+[ \t]*", "", line).strip()
StripItemMarker(line) ==
    LET a == DropBlanks(line)
    IN  IF a # <<>> /\ IsStripMarker(Head(a))
        THEN Strip(DropBlanks(DropMarkers(a)))
        ELSE Strip(line)

RECURSIVE ItemsOf(_)
ItemsOf(lines) ==
    IF lines = <<>> THEN <<>>
    ELSE LET a == StripItemMarker(Head(lines))
         IN  (IF IsBlank(Head(lines)) \/ a = <<>> THEN <<>> ELSE <<a>>)
                 \o ItemsOf(Tail(lines))

\* AgentOrchestrator._extract_next_actions: [actions, rest]
ExtractNextActions(text) ==
    IF NextActionMatches(text) = {} THEN [actions |-> <<>>, rest |-> text]
    ELSE LET m == CHOOSE x \in NextActionMatches(text) :
                      \A y \in NextActionMatches(text) : x[1] <= y[1]
             e == BlockEnd(text, m[2])
             block == Slice(text, m[2], e - 1)
             cleaned == Slice(text, 1, m[1] - 1) \o Slice(text, e, Len(text))
         IN  [actions |-> ItemsOf(SplitLines(block)), rest |-> Strip(cleaned)]

\* the two extractions the other way round: next actions first, on the raw text
ComposeActionsFirst(raw_text, evidence, mode) ==
    LET n == ExtractNextActions(raw_text)
        p == IF mode = "patch" THEN ExtractPatch(n.rest)
             ELSE [patch |-> None, rest |-> n.rest]
    IN  [answer_text |-> Strip(p.rest),
         citations |-> evidence,
         patch_diff |-> p.patch,
         next_actions |-> n.actions]

\* AgentOrchestrator._compose_response
ComposeResponse(raw_text, evidence, mode) ==
    LET p == IF mode = "patch" THEN ExtractPatch(raw_text)
             ELSE [patch |-> None, rest |-> raw_text]
        n == ExtractNextActions(p.rest)
    IN  [answer_text |-> Strip(n.rest),
         citations |-> evidence,
         patch_diff |-> p.patch,
         next_actions |-> n.actions]

(***************************************************************************)
(* Program constants.                                                      *)
(***************************************************************************)
MODES == {"explain", "locate", "suggest", "patch"}
SCOPES == {"files-only", "include-pr"}

\* the names declared by _define_tools, in declaration order
DeclaredTools ==
    <<"search_repo", "open_file", "get_issues", "get_pull_requests",
      "get_repo_stats", "list_files">>

\* text[:200] of the open_file snippet
SnippetLen == 200
\* final_response.answer_text[:300] and response_summary[:300]
SummaryLen == 300
\* recent_queries[-10:] and selected_evidence_refs[-50:]
MaxRecentQueries == 10
MaxEvidenceRefs == 50
\* recent[-3:] of _build_system_prompt, recent_queries[-5:] of get_llm_context
PromptHistory == 3
ContextQueries == 5

\* s[:n]
Take(s, n) == IF Len(s) <= n THEN s ELSE SubSeq(s, 1, n)
\* the oldest n entries kept
KeepFirst(s, n) == IF Len(s) <= n THEN s ELSE SubSeq(s, 1, n)

\* s[-n:]
LastN(s, n) == IF Len(s) <= n THEN s ELSE SubSeq(s, Len(s) - n + 1, Len(s))

\* _tools_for_scope, lines 452-455: the declarations whose name is not excluded
RECURSIVE FilterTools(_, _)
FilterTools(decls, excluded) ==
    IF decls = <<>> THEN <<>>
    ELSE (IF Head(decls) \in excluded THEN <<>> ELSE <<Head(decls)>>)
             \o FilterTools(Tail(decls), excluded)

\* every declared tool whatever the scope
ToolsForAnyScope(scope) == DeclaredTools

\* AgentOrchestrator._tools_for_scope: the declared names offered to the responder
ToolsForScope(scope) ==
    IF scope = "files-only"
    THEN FilterTools(DeclaredTools, {"get_issues", "get_pull_requests"})
    ELSE DeclaredTools

(***************************************************************************)
(* The gateway collaborator (ToolGateway).  One call has an outcome: a     *)
(* returned value or a raised exception with its message.                  *)
(***************************************************************************)
Returned(v) == [raised |-> FALSE, value |-> v]
Raised(msg) == [raised |-> TRUE, msg |-> msg]

\* the scope test of no issue or pull request tool
NeverOutOfScope(scope) == FALSE

\* _execute_tool, lines 474 and 484: scope == "files-only"
OutOfScope(scope) == scope = "files-only"

\* _execute_tool, lines 462-504: the body of the try, given the outcome `out` the
\* gateway has for this call: the gateway operations invoked and what the body
\* returns or raises
TryTool(tool_name, args, scope, out) ==
    CASE tool_name = "search_repo" ->
            [ops |-> <<"search_repo">>,
             outcome |-> IF out.raised THEN out
                         ELSE Returned([results |-> out.value, count |-> Len(out.value)])]
      [] tool_name = "open_file" ->
            [ops |-> <<"open_file">>, outcome |-> out]
      [] tool_name = "get_issues" ->
            IF OutOfScope(scope)
            THEN [ops |-> <<>>,
                  outcome |-> Returned([error |-> "get_issues not available in files-only scope"])]
            ELSE [ops |-> <<"get_issues">>,
                  outcome |-> IF out.raised THEN out
                              ELSE Returned([issues |-> out.value, count |-> Len(out.value)])]
      [] tool_name = "get_pull_requests" ->
            IF OutOfScope(scope)
            THEN [ops |-> <<>>,
                  outcome |-> Returned([error |->
                                  "get_pull_requests not available in files-only scope"])]
            ELSE [ops |-> <<"get_pull_requests">>,
                  outcome |-> IF out.raised THEN out
                              ELSE Returned([pull_requests |-> out.value,
                                             count |-> Len(out.value)])]
      [] tool_name = "get_repo_stats" ->
            [ops |-> <<"stats">>, outcome |-> out]
      [] tool_name = "list_files" ->
            [ops |-> <<"list_files">>,
             outcome |-> IF out.raised THEN out
                         ELSE Returned([files |-> out.value, count |-> Len(out.value)])]
      [] OTHER ->
            [ops |-> <<>>, outcome |-> Returned([error |-> "Unknown tool: " \o tool_name])]

\* a dispatcher that lets the exception through
CaughtNothing(outcome) == outcome

\* _execute_tool, lines 506-507: except Exception as e: return {"error": str(e)}
CaughtError(outcome) ==
    IF outcome.raised THEN Returned([error |-> outcome.msg]) ELSE outcome

\* a dispatcher that invokes the gateway a second time when the first call raised
ExecuteToolRetrying(tool_name, args, scope, out) ==
    LET body == TryTool(tool_name, args, scope, out)
    IN  [ops |-> IF body.outcome.raised THEN body.ops \o body.ops ELSE body.ops,
         outcome |-> CaughtError(body.outcome)]

\* AgentOrchestrator._execute_tool: the gateway operations invoked and what the
\* call returns or raises
ExecuteTool(tool_name, args, scope, out) ==
    LET body == TryTool(tool_name, args, scope, out)
    IN  [ops |-> body.ops, outcome |-> CaughtError(body.outcome)]

\* a result that is not a dict is the record with the one field not_a_dict (its
\* value); isinstance(result, dict) is the absence of that field
NotADict(v) == [not_a_dict |-> v]
IsDict(result) == "not_a_dict" \notin DOMAIN result

\* an entry that never records the error of its result
ExecutedWithoutError(tool_name, args, result) ==
    [tool_name |-> tool_name, args |-> args, result |-> result, error |-> None]

\* run, lines 156-160: the ExecutedToolCall built from a dispatch result
ExecutedToolCall(tool_name, args, result) ==
    [tool_name |-> tool_name, args |-> args, result |-> result,
     error |-> IF IsDict(result) THEN Get(result, "error") ELSE None]

(***************************************************************************)
(* Evidence consolidation: _consolidate_evidence.                          *)
(***************************************************************************)
Citation(file_path, start_line, end_line, snippet, source_type, ref_id) ==
    [file_path |-> file_path, start_line |-> start_line, end_line |-> end_line,
     snippet |-> snippet, source_type |-> source_type, ref_id |-> ref_id]

\* a new citation put in front of the earlier ones
AddCitationInFront(acc, key, cit) ==
    IF key \in acc.seen THEN acc
    ELSE [seen |-> acc.seen \cup {key}, citations |-> <<cit>> \o acc.citations]

\* a citation appended whether or not its key was seen
AddCitationUnkeyed(acc, key, cit) ==
    [seen |-> acc.seen \cup {key}, citations |-> Append(acc.citations, cit)]

\* _consolidate_evidence, lines 227-229 (and 238-240, 252-254, 263-265): the
\* accumulator of the loop, the seen keys and the citations so far
AddCitation(acc, key, cit) ==
    IF key \in acc.seen THEN acc
    ELSE [seen |-> acc.seen \cup {key}, citations |-> Append(acc.citations, cit)]

\* search matches cited without a look at the keys other tools have recorded
RECURSIVE AddSearchItemsApart(_, _)
AddSearchItemsApart(acc, items) ==
    IF items = <<>> THEN acc
    ELSE LET item == Head(items)
             key == <<"search", Get(item, "file_path"), Get(item, "start_line"),
                      Get(item, "end_line")>>
         IN  AddSearchItemsApart(
                 AddCitation(acc, key,
                     Citation(GetOr(item, "file_path", ""), Get(item, "start_line"),
                              Get(item, "end_line"), GetOr(item, "snippet", <<>>),
                              "file", None)),
                 Tail(items))

\* _consolidate_evidence, lines 225-235: the matches of a search_repo result
RECURSIVE AddSearchItems(_, _)
AddSearchItems(acc, items) ==
    IF items = <<>> THEN acc
    ELSE LET item == Head(items)
             key == <<Get(item, "file_path"), Get(item, "start_line"),
                      Get(item, "end_line")>>
         IN  AddSearchItems(
                 AddCitation(acc, key,
                     Citation(GetOr(item, "file_path", ""), Get(item, "start_line"),
                              Get(item, "end_line"), GetOr(item, "snippet", <<>>),
                              "file", None)),
                 Tail(items))

\* str(x) of an issue or pull request number
RECURSIVE DigitsOf(_)
DigitsOf(n) ==
    LET d == <<"0", "1", "2", "3", "4", "5", "6", "7", "8", "9">>
    IN  IF n < 10 THEN d[n + 1] ELSE DigitsOf(n \div 10) \o d[(n % 10) + 1]

RECURSIVE AddTracked(_, _, _)
AddTracked(acc, items, kind) ==
    IF items = <<>> THEN acc
    ELSE LET item == Head(items)
             key == <<kind, Get(item, "number")>>
         IN  AddTracked(
                 AddCitation(acc, key,
                     Citation(GetOr(item, "url", ""), None, None,
                              GetOr(item, "title", <<>>), kind,
                              IF "number" \in DOMAIN item
                              THEN Some(DigitsOf(item.number)) ELSE Some(""))),
                 Tail(items), kind)

\* text[:200] + ("..." if len(text) > 200 else "")
Snippet(text) ==
    Take(text, SnippetLen) \o (IF Len(text) > SnippetLen THEN <<"...">> ELSE <<>>)

\* an iteration that cites every open_file call, with or without a file_path
ConsolidateStepUnchecked(acc, call) ==
    LET result == call.result
    IN  IF call.tool_name = "search_repo" /\ "results" \in DOMAIN result
        THEN AddSearchItems(acc, result.results)
        ELSE IF call.tool_name = "open_file"
        THEN AddCitation(acc,
                 <<Get(result, "file_path"), Get(result, "start_line"),
                   Get(result, "end_line")>>,
                 Citation(GetOr(result, "file_path", ""), Get(result, "start_line"),
                          Get(result, "end_line"),
                          Snippet(GetOr(result, "text", <<>>)), "file", None))
        ELSE IF call.tool_name = "get_issues" /\ "issues" \in DOMAIN result
        THEN AddTracked(acc, result.issues, "issue")
        ELSE IF call.tool_name = "get_pull_requests" /\ "pull_requests" \in DOMAIN result
        THEN AddTracked(acc, result.pull_requests, "pr")
        ELSE acc

\* one iteration of the loop over the executed calls
ConsolidateStep(acc, call) ==
    LET result == call.result
    IN  IF ~IsDict(result) THEN acc
        ELSE IF call.tool_name = "search_repo" /\ "results" \in DOMAIN result
        THEN AddSearchItems(acc, result.results)
        ELSE IF call.tool_name = "open_file" /\ "file_path" \in DOMAIN result
        THEN AddCitation(acc,
                 <<Some(result.file_path), Get(result, "start_line"),
                   Get(result, "end_line")>>,
                 Citation(result.file_path, Get(result, "start_line"),
                          Get(result, "end_line"),
                          Snippet(GetOr(result, "text", <<>>)), "file", None))
        ELSE IF call.tool_name = "get_issues" /\ "issues" \in DOMAIN result
        THEN AddTracked(acc, result.issues, "issue")
        ELSE IF call.tool_name = "get_pull_requests" /\ "pull_requests" \in DOMAIN result
        THEN AddTracked(acc, result.pull_requests, "pr")
        ELSE acc

RECURSIVE ConsolidateFrom(_, _)
ConsolidateFrom(acc, executed) ==
    IF executed = <<>> THEN acc
    ELSE ConsolidateFrom(ConsolidateStep(acc, Head(executed)), Tail(executed))

\* AgentOrchestrator._consolidate_evidence
ConsolidateEvidence(executed) ==
    ConsolidateFrom([seen |-> {}, citations |-> <<>>], executed).citations

(***************************************************************************)
(* The session collaborator (SessionManager): the in-memory _state and the *)
(* session file.  Timestamps and the session id are not modelled.          *)
(***************************************************************************)
\* create_session, lines 22-36: the fresh state
NewSessionState(m, sc) ==
    [recent_queries |-> <<>>, selected_evidence_refs |-> <<>>,
     user_settings |-> [mode |-> m, scope |-> sc, verbose |-> FALSE]]

\* add_query, lines 61-67: the state before save_session
AddQuery(state, q, response_summary) ==
    [state EXCEPT !.recent_queries =
        LastN(Append(@, [query |-> q, summary |-> Take(response_summary, SummaryLen)]),
              MaxRecentQueries)]

\* (ref.get("file_path"), ref.get("start_line"), ref.get("end_line")): a line
\* number that is missing counts as one that is None
RefKey(ref) ==
    <<Get(ref, "file_path"), GetOr(ref, "start_line", None), GetOr(ref, "end_line", None)>>

\* the references appended as they come
AppendEveryRef(stored, refs) == stored \o refs

RECURSIVE AppendNewRefs(_, _)
AppendNewRefs(stored, refs) ==
    IF refs = <<>> THEN stored
    ELSE AppendNewRefs(
             IF RefKey(Head(refs)) \in {RefKey(stored[i]) : i \in 1..Len(stored)}
             THEN stored ELSE Append(stored, Head(refs)),
             Tail(refs))

\* add_evidence, lines 72-81: the state before save_session
AddEvidence(state, evidence_refs) ==
    [state EXCEPT !.selected_evidence_refs =
        LastN(AppendNewRefs(@, evidence_refs), MaxEvidenceRefs)]

\* get_llm_context, lines 93-101
GetLlmContext(state) ==
    [recent_queries |-> LastN(state.recent_queries, ContextQueries),
     selected_evidence_refs |-> LastN(state.selected_evidence_refs, 10),
     user_settings |-> state.user_settings]

\* __init__, line 16: self._state = None
NoState == [active |-> FALSE]

\* self._state is not None
IsActive(state) == "active" \notin DOMAIN state

\* _require_state, lines 120-122: the error raised, if any
RequireState(state) == IF IsActive(state) THEN None ELSE Some("RuntimeError")

\* update_settings, lines 86-88: the state before save_session
UpdateSettings(state, kwargs) ==
    [state EXCEPT !.user_settings =
        [k \in DOMAIN @ |-> IF k \in DOMAIN kwargs THEN kwargs[k] ELSE @[k]]]

\* the line numbers the session files of the model hold
FileLines == 1..3

\* json.dump of a value that is None or an int, and json.load of the result
JsonOfLine(v) == IF v = None THEN "null" ELSE ToString(v[1])
LineOfJson(s) == IF s = "null" THEN None ELSE Some(CHOOSE n \in FileLines : ToString(n) = s)

\* json.dump of a bool, and json.load of the result
JsonOfBool(b) == IF b THEN "true" ELSE "false"
BoolOfJson(s) == s = "true"

JsonOfRef(ref) ==
    [k \in DOMAIN ref |->
        IF k \in {"start_line", "end_line"} THEN JsonOfLine(ref[k]) ELSE ref[k]]
RefOfJson(doc) ==
    [k \in DOMAIN doc |->
        IF k \in {"start_line", "end_line"} THEN LineOfJson(doc[k]) ELSE doc[k]]

\* a document that holds a state without its evidence references
JsonDumpWithoutRefs(state) ==
    [state EXCEPT
        !.selected_evidence_refs = <<>>,
        !.user_settings = [@ EXCEPT !.verbose = JsonOfBool(@)]]

\* save_session, line 54: json.dump(self._state, f): strings stay, numbers become
\* digits, None becomes null, booleans true and false
JsonDump(state) ==
    [state EXCEPT
        !.selected_evidence_refs = [i \in 1..Len(@) |-> JsonOfRef(@[i])],
        !.user_settings = [@ EXCEPT !.verbose = JsonOfBool(@)]]

\* load_session, line 45: json.load(f)
JsonLoad(doc) ==
    [doc EXCEPT
        !.selected_evidence_refs = [i \in 1..Len(@) |-> RefOfJson(@[i])],
        !.user_settings = [@ EXCEPT !.verbose = BoolOfJson(@)]]

\* save_session, lines 48-54, on the files of the sessions directory: the files
\* after the call and the error raised, if any
SaveSession(files, state) ==
    IF ~IsActive(state) THEN [files |-> files, raised |-> Some("RuntimeError")]
    ELSE [files |-> [i \in 1..(IF state.session_id > Len(files) THEN state.session_id
                               ELSE Len(files)) |->
                        IF i = state.session_id THEN JsonDump(state) ELSE files[i]],
          raised |-> None]

\* a load that drops the active state when the file is not found
LoadSessionOrReset(files, state, session_id) ==
    IF session_id \notin 1..Len(files)
    THEN [state |-> NoState, raised |-> Some("FileNotFoundError")]
    ELSE [state |-> JsonLoad(files[session_id]), raised |-> None]

\* load_session, lines 40-46: the state after the call and the error raised
LoadSession(files, state, session_id) ==
    IF session_id \notin 1..Len(files)
    THEN [state |-> state, raised |-> Some("FileNotFoundError")]
    ELSE [state |-> JsonLoad(files[session_id]), raised |-> None]

(***************************************************************************)
(* The orchestrator's prompt, conversation and responder.                  *)
(***************************************************************************)
\* the instruction text with all of the context's queries as its history
BuildPromptOfContext(m, sc, stats, has_session, state) ==
    [stats |-> stats,
     history |-> IF has_session THEN GetLlmContext(state).recent_queries ELSE <<>>,
     mode |-> m,
     scope_note |-> IF sc = "include-pr" THEN "all tools"
                    ELSE "file-based tools only"]

\* _build_system_prompt: the parts of the instruction text that vary
BuildSystemPrompt(m, sc, stats, has_session, state) ==
    [stats |-> stats,
     history |-> IF has_session
                 THEN LastN(GetLlmContext(state).recent_queries, PromptHistory)
                 ELSE <<>>,
     mode |-> m,
     scope_note |-> IF sc = "include-pr" THEN "all tools"
                    ELSE "file-based tools only"]

FallbackPrompt == "Please provide your final answer based on the evidence gathered."

\* a part of a responder response: a function call, a text, or neither
CallPart(name, args) == [function_call |-> Some([name |-> name, args |-> args]), text |-> None]
TextPart(t) == [function_call |-> None, text |-> Some(t)]
EmptyPart == [function_call |-> None, text |-> None]

\* the truth values of part.function_call and part.text
HasCall(part) == part.function_call # None
HasText(part) == part.text # None /\ part.text[1] # <<>>

\* a responder response: no candidates, a candidate whose parts are None, or parts
NoCandidates == [candidates |-> FALSE, parts |-> None]
NoParts == [candidates |-> TRUE, parts |-> None]
Response(ps) == [candidates |-> TRUE, parts |-> Some(ps)]

\* a test that takes parts without a call or a text for no content
NoUsableContent(resp) ==
    \/ ~resp.candidates \/ resp.parts = None
    \/ \A i \in 1..Len(resp.parts[1]) : ~HasCall(resp.parts[1][i]) /\ ~HasText(resp.parts[1][i])

\* a test that takes an empty parts list for content
NoCandidateOrNone(resp) == ~resp.candidates \/ resp.parts = None

\* run, line 127: not response.candidates or not response.candidates[0].content.parts
NoContent(resp) == ~resp.candidates \/ resp.parts = None \/ resp.parts[1] = <<>>

\* only the first function call of a response
RECURSIVE FirstFunctionCall(_)
FirstFunctionCall(ps) ==
    IF ps = <<>> THEN <<>>
    ELSE IF HasCall(Head(ps)) THEN <<Head(ps).function_call[1]>>
    ELSE FirstFunctionCall(Tail(ps))

\* run, lines 130-134: the function calls of a response, in order
RECURSIVE FunctionCalls(_)
FunctionCalls(ps) ==
    IF ps = <<>> THEN <<>>
    ELSE (IF HasCall(Head(ps)) THEN <<Head(ps).function_call[1]>> ELSE <<>>)
             \o FunctionCalls(Tail(ps))

\* run, lines 131-136: the texts of the parts that are no function call
RECURSIVE TextParts(_)
TextParts(ps) ==
    IF ps = <<>> THEN <<>>
    ELSE (IF ~HasCall(Head(ps)) /\ HasText(Head(ps)) THEN <<Head(ps).text[1]>> ELSE <<>>)
             \o TextParts(Tail(ps))

\* run, lines 192-194: the texts appended by the fallback
RECURSIVE FallbackTexts(_)
FallbackTexts(ps) ==
    IF ps = <<>> THEN <<>>
    ELSE (IF HasText(Head(ps)) THEN <<Head(ps).text[1]>> ELSE <<>>)
             \o FallbackTexts(Tail(ps))

\* run, lines 140-143
RECURSIVE PlanOf(_)
PlanOf(fcs) ==
    IF fcs = <<>> THEN <<>>
    ELSE <<[tool_name |-> Head(fcs).name, args |-> Head(fcs).args, rationale |-> ""]>>
             \o PlanOf(Tail(fcs))

(***************************************************************************)
(* The environment: the indexed repository behind the gateway, and the     *)
(* responses the responder may give.                                       *)
(***************************************************************************)
\* max_turns is drawn from 0..MaxTurns; a response has at most MaxParts parts and
\* the responses of one run at most MaxTotalParts parts together
MaxTurns == 2
MaxParts == 2
MaxTotalParts == 3

SeqsUpTo(S, n) == UNION {[1..k -> S] : k \in 0..n}

Chunk1 == [file_path |-> "auth.py", start_line |-> 1, end_line |-> 10, snippet |-> <<"a">>]
Chunk2 == [file_path |-> "middleware.py", start_line |-> 5, end_line |-> 8,
           snippet |-> <<"a", SP, "a">>]
Issue1 == [number |-> 7, title |-> <<"a", SP, "a">>, url |-> "issues/7", state |-> "open"]
PullRequest1 == [number |-> 7, title |-> <<"a">>, url |-> "pull/7", state |-> "open"]

\* the line count of each file of the repository
RepoFiles == [p \in {"auth.py", "middleware.py"} |-> IF p = "auth.py" THEN 12 ELSE 8]

RepoStats ==
    [loaded |-> TRUE, repo_path |-> "/repo", total_files |-> 2, total_chunks |-> 2,
     total_issues |-> 1, total_prs |-> 1]

Max(a, b) == IF a >= b THEN a ELSE b
Min(a, b) == IF a <= b THEN a ELSE b

\* ToolGateway.open_file
GatewayOpenFile(path, start_line, end_line) ==
    IF path = None THEN Raised("unsupported operand type(s) for /")
    ELSE IF path[1] \notin DOMAIN RepoFiles THEN Raised("File not found: " \o path[1])
    ELSE LET n == RepoFiles[path[1]]
             ranged == start_line # None /\ end_line # None
             start_idx == IF ranged THEN Max(0, start_line[1] - 1) ELSE 0
             end_idx == IF ranged THEN Min(n, end_line[1]) ELSE n
         IN  Returned([file_path |-> path[1],
                       start_line |-> IF ranged THEN start_line[1] ELSE 1,
                       end_line |-> end_idx,
                       text |-> [k \in 1..Max(0, end_idx - start_idx) |-> "l"],
                       total_lines |-> n])

\* the outcome the gateway has for the operation a tool name maps to
GatewayOutcomes(tool_name, args) ==
    CASE tool_name = "search_repo" ->
            IF "query" \in DOMAIN args THEN {Returned(<<Chunk1, Chunk2>>)}
            ELSE {Raised("'NoneType' object has no attribute 'lower'")}
      [] tool_name = "open_file" ->
            {GatewayOpenFile(Get(args, "path"), Get(args, "start_line"),
                             Get(args, "end_line"))}
      [] tool_name = "get_issues" -> {Returned(<<Issue1>>)}
      [] tool_name = "get_pull_requests" -> {Returned(<<PullRequest1>>)}
      [] tool_name = "get_repo_stats" -> {Returned(RepoStats)}
      [] tool_name = "list_files" -> {Returned(<<"auth.py", "middleware.py">>)}
      [] OTHER -> {Raised("no such operation")}

\* the tool calls the responder may request
Requests ==
    {[name |-> "search_repo", args |-> [query |-> "auth"]],
     [name |-> "open_file", args |-> [path |-> "nope.py"]],
     [name |-> "get_issues", args |-> <<>>],
     [name |-> "get_pull_requests", args |-> <<>>],
     [name |-> "rm_rf", args |-> <<>>]}

Prose == <<"a">>
Blank == <<SP>>
NextStepsOnly == <<"Next Steps", ":", NL, "-", SP, "a">>
DiffOnly == <<"-", "-", "-", SP, "a">>

LoopTexts == {Blank, Prose}
FinalTexts == {Blank, Prose, NextStepsOnly, DiffOnly}

LoopParts ==
    {CallPart(r.name, r.args) : r \in Requests}
        \cup {TextPart(t) : t \in LoopTexts} \cup {EmptyPart}
LoopResponses(room) ==
    {NoCandidates} \cup {Response(ps) : ps \in SeqsUpTo(LoopParts, Min(MaxParts, room))}

FallbackParts == {TextPart(t) : t \in FinalTexts}
FallbackResponses(room) ==
    {NoCandidates, NoParts}
        \cup {Response(ps) : ps \in SeqsUpTo(FallbackParts, Min(MaxParts, room))}

\* the number of parts of a response
PartCount(resp) == IF resp.candidates /\ resp.parts # None THEN Len(resp.parts[1]) ELSE 0

Queries == {"Where is auth handled?"}
\* the modes and scopes a run is started with: valid ones and an invalid one
StartModes == {"explain", "patch", "summarize"}
StartScopes == SCOPES \cup {"all"}

(***************************************************************************)
(* State.                                                                  *)
(***************************************************************************)
VARIABLES
    pc,              \* "idle", "loop", "dispatch", "finalize", "done", "failed"
    has_session,     \* self.session is not None
    session_state,   \* SessionManager._state
    session_file,    \* the session file on disk
    query, mode, scope, max_turns,
    turn, contents, executed_calls, raw_plan, final_text,
    pending,         \* the function calls of this turn not yet dispatched
    response_parts,  \* the function responses of this turn so far
    events,          \* what the run did, in program order
    parts_seen,      \* the number of response parts the responder has sent
    result           \* the OrchestratorResult returned, or None

vars == <<pc, has_session, session_state, session_file, query, mode, scope, max_turns,
          turn, contents, executed_calls, raw_plan, final_text, pending,
          response_parts, events, parts_seen, result>>

Init ==
    /\ pc = "idle"
    /\ has_session = TRUE
    /\ session_state = NewSessionState("explain", "include-pr")
    /\ session_file = session_state
    /\ query = "" /\ mode = "" /\ scope = "" /\ max_turns = 0
    /\ turn = 0
    /\ contents = <<>>
    /\ executed_calls = <<>>
    /\ raw_plan = <<>>
    /\ final_text = <<>>
    /\ pending = <<>>
    /\ response_parts = <<>>
    /\ events = <<>>
    /\ parts_seen = 0
    /\ result = None

UserTurn(parts) == [role |-> "user", parts |-> parts]

\* the plan captured on every turn that requests calls
CapturePlanEveryTurn(t, plan, function_calls) == PlanOf(function_calls)

\* run, lines 139-143: the plan after a response with function calls on turn t
CapturePlan(t, plan, function_calls) ==
    IF t = 1 THEN PlanOf(function_calls) ELSE plan

\* a run that accepts every mode and scope
AnyArguments(m, sc) == TRUE

\* run, lines 95-98: neither ValueError is raised
ValidArguments(m, sc) == m \in MODES /\ sc \in SCOPES

\* a run that takes max_turns < 1 for an invalid argument
StartRejectingNoTurns(q, m, sc, mt) ==
    /\ pc = "idle"
    /\ query' = q /\ mode' = m /\ scope' = sc /\ max_turns' = mt
    /\ IF ~ValidArguments(m, sc) \/ mt < 1
       THEN /\ pc' = "failed"
            /\ events' = Append(events, [ev |-> "raise", error |-> "ValueError"])
            /\ UNCHANGED contents
       ELSE /\ pc' = "loop"
            /\ events' = Append(events, [ev |-> "gateway", op |-> "stats"])
            /\ contents' =
                 <<UserTurn(<<[text |-> BuildSystemPrompt(m, sc, RepoStats, has_session,
                                                          session_state),
                               request |-> q]>>)>>
    /\ UNCHANGED <<has_session, session_state, session_file, turn, executed_calls,
                   raw_plan, final_text, pending, response_parts, parts_seen, result>>

\* run, lines 95-110
Start(q, m, sc, mt) ==
    /\ pc = "idle"
    /\ query' = q /\ mode' = m /\ scope' = sc /\ max_turns' = mt
    /\ IF ~ValidArguments(m, sc)
       THEN /\ pc' = "failed"
            /\ events' = Append(events, [ev |-> "raise", error |-> "ValueError"])
            /\ UNCHANGED contents
       ELSE IF has_session /\ RequireState(session_state) # None
       THEN \* _build_system_prompt, lines 337-340: get_llm_context raises
            /\ pc' = "failed"
            /\ events' = events \o <<[ev |-> "gateway", op |-> "stats"],
                                     [ev |-> "raise", error |-> "RuntimeError"]>>
            /\ UNCHANGED contents
       ELSE /\ pc' = "loop"
            /\ events' = Append(events, [ev |-> "gateway", op |-> "stats"])
            /\ contents' =
                 <<UserTurn(<<[text |-> BuildSystemPrompt(m, sc, RepoStats, has_session,
                                                          session_state),
                               request |-> q]>>)>>
    /\ UNCHANGED <<has_session, session_state, session_file, turn, executed_calls,
                   raw_plan, final_text, pending, response_parts, parts_seen, result>>

ResponderEvent(kind, tools, resp) ==
    [ev |-> "responder", kind |-> kind, tools |-> tools, turn |-> turn',
     conversation |-> Len(contents), response |-> resp]

\* a loop that does not count its turns
SameTurn(t) == t

\* run, line 114: turn += 1
NextTurn(t) == t + 1

\* a loop that asks again after a transport failure
LoopTransportRetried ==
    /\ pc = "loop" /\ turn < max_turns
    /\ \A i \in 1..Len(events) : events[i].ev # "raise"
    /\ turn' = turn
    /\ pc' = "loop"
    /\ events' = Append(events, [ev |-> "raise", error |-> "transport", during |-> "loop"])
    /\ UNCHANGED <<has_session, session_state, session_file, query, mode, scope,
                   max_turns, contents, executed_calls, raw_plan, final_text, pending,
                   response_parts, parts_seen, result>>

\* run, lines 113-124 when generate_content raises
LoopTransportError ==
    /\ pc = "loop" /\ turn < max_turns
    /\ turn' = NextTurn(turn)
    /\ pc' = "failed"
    /\ events' = Append(events, [ev |-> "raise", error |-> "transport", during |-> "loop"])
    /\ UNCHANGED <<has_session, session_state, session_file, query, mode, scope,
                   max_turns, contents, executed_calls, raw_plan, final_text, pending,
                   response_parts, parts_seen, result>>

\* run, lines 113-148 and 175-179: one responder call of the loop and what the
\* response makes of the run's state, up to the first dispatch
LoopTurn(resp) ==
    /\ pc = "loop" /\ turn < max_turns
    /\ turn' = NextTurn(turn)
    /\ events' = Append(events, ResponderEvent("loop", Some(ToolsForScope(scope)), resp))
    /\ IF NoContent(resp)
       THEN /\ pc' = "finalize"
            /\ UNCHANGED <<raw_plan, final_text, contents, pending>>
       ELSE LET function_calls == FunctionCalls(resp.parts[1])
                text_parts == TextParts(resp.parts[1])
            IN  IF function_calls # <<>>
                THEN /\ raw_plan' = CapturePlan(turn', raw_plan, function_calls)
                     /\ final_text' = IF text_parts # <<>> THEN JoinLines(text_parts)
                                      ELSE final_text
                     /\ contents' = Append(contents, [role |-> "model", parts |-> resp.parts[1]])
                     /\ pending' = function_calls
                     /\ pc' = "dispatch"
                ELSE IF text_parts # <<>>
                THEN /\ final_text' = JoinLines(text_parts)
                     /\ pc' = "finalize"
                     /\ UNCHANGED <<raw_plan, contents, pending>>
                ELSE /\ pc' = "loop"
                     /\ UNCHANGED <<raw_plan, final_text, contents, pending>>
    /\ response_parts' = <<>>
    /\ parts_seen' = parts_seen + PartCount(resp)
    /\ UNCHANGED <<has_session, session_state, session_file, query, mode, scope,
                   max_turns, executed_calls, result>>

\* run, line 113: the loop condition fails
LoopExit ==
    /\ pc = "loop" /\ ~(turn < max_turns)
    /\ pc' = "finalize"
    /\ UNCHANGED <<has_session, session_state, session_file, query, mode, scope,
                   max_turns, turn, contents, executed_calls, raw_plan, final_text,
                   pending, response_parts, events, parts_seen, result>>

RECURSIVE GatewayEvents(_)
GatewayEvents(ops) ==
    IF ops = <<>> THEN <<>>
    ELSE <<[ev |-> "gateway", op |-> Head(ops)]>> \o GatewayEvents(Tail(ops))

\* a dispatch that sends each response back as a turn of its own
DispatchTurnPerCall(out) ==
    /\ LET fc == Head(pending)
           done == ExecuteTool(fc.name, fc.args, scope, out)
           part == [function_response |-> [name |-> fc.name, response |-> done.outcome.value]]
       IN  /\ ~done.outcome.raised
           /\ executed_calls' =
                  Append(executed_calls, ExecutedToolCall(fc.name, fc.args, done.outcome.value))
           /\ events' = events \o GatewayEvents(done.ops)
           /\ pending' = Tail(pending)
           /\ contents' = Append(contents, UserTurn(<<part>>))
           /\ response_parts' = <<>>
           /\ pc' = IF Tail(pending) = <<>> THEN "loop" ELSE pc
    /\ UNCHANGED <<has_session, session_state, session_file, query, mode, scope,
                   max_turns, turn, raw_plan, final_text, parts_seen, result>>

\* run, lines 151-173: the dispatch of the next function call of the turn
DispatchWith(out) ==
    /\ LET fc == Head(pending)
           done == ExecuteTool(fc.name, fc.args, scope, out)
           ran == events \o GatewayEvents(done.ops)
       IN  IF done.outcome.raised
           THEN /\ pc' = "failed"
                /\ events' = Append(ran, [ev |-> "raise", error |-> "tool"])
                /\ UNCHANGED <<executed_calls, pending, contents, response_parts>>
           ELSE LET parts == Append(response_parts,
                                 [function_response |->
                                     [name |-> fc.name, response |-> done.outcome.value]])
                IN  /\ executed_calls' =
                          Append(executed_calls,
                                 ExecutedToolCall(fc.name, fc.args, done.outcome.value))
                    /\ events' = ran
                    /\ pending' = Tail(pending)
                    /\ IF Tail(pending) = <<>>
                       THEN /\ contents' = Append(contents, UserTurn(parts))
                            /\ response_parts' = <<>>
                            /\ pc' = "loop"
                       ELSE /\ response_parts' = parts
                            /\ UNCHANGED <<contents, pc>>
    /\ UNCHANGED <<has_session, session_state, session_file, query, mode, scope,
                   max_turns, turn, raw_plan, final_text, parts_seen, result>>

Dispatch ==
    /\ pc = "dispatch" /\ pending # <<>>
    /\ \E out \in GatewayOutcomes(Head(pending).name, Head(pending).args) :
           DispatchWith(out)

\* a reference for every citation, whatever its source type
RECURSIVE EveryRef(_)
EveryRef(evidence) ==
    IF evidence = <<>> THEN <<>>
    ELSE <<[file_path |-> Head(evidence).file_path,
            start_line |-> Head(evidence).start_line,
            end_line |-> Head(evidence).end_line]>> \o EveryRef(Tail(evidence))

\* run, lines 201-206: the references of the citations of source type file
RECURSIVE FileRefs(_)
FileRefs(evidence) ==
    IF evidence = <<>> THEN <<>>
    ELSE (IF Head(evidence).source_type = "file"
          THEN <<[file_path |-> Head(evidence).file_path,
                  start_line |-> Head(evidence).start_line,
                  end_line |-> Head(evidence).end_line]>>
          ELSE <<>>) \o FileRefs(Tail(evidence))

\* a session update persisted in one write
UpdateSessionInOneWrite(state, q, answer_text, evidence) ==
    <<[ev |-> "save_session", by |-> "add_evidence",
       saved |-> AddEvidence(AddQuery(state, q, Take(answer_text, SummaryLen)),
                             FileRefs(evidence))]>>

\* run, lines 199-207: the session update, the state after each of its saves
UpdateSession(state, q, answer_text, evidence) ==
    LET after_query == AddQuery(state, q, Take(answer_text, SummaryLen))
        after_evidence == AddEvidence(after_query, FileRefs(evidence))
    IN  <<[ev |-> "save_session", by |-> "add_query", saved |-> after_query],
          [ev |-> "save_session", by |-> "add_evidence", saved |-> after_evidence]>>

\* run, lines 196-214: consolidation, composition, the session update, the result
Complete(text, evs) ==
    LET evidence == ConsolidateEvidence(executed_calls)
        final_response == ComposeResponse(text, evidence, mode)
        saves == IF has_session
                 THEN UpdateSession(session_state, query, final_response.answer_text,
                                    evidence)
                 ELSE <<>>
    IN  /\ final_text' = text
        /\ events' = evs \o <<[ev |-> "consolidate"], [ev |-> "compose"]>> \o saves
        /\ IF saves # <<>>
           THEN /\ session_state' = saves[Len(saves)].saved
                /\ session_file' = saves[Len(saves)].saved
           ELSE UNCHANGED <<session_state, session_file>>
        /\ result' = Some([tool_call_plan |-> raw_plan,
                           executed_tool_calls |-> executed_calls,
                           consolidated_evidence |-> evidence,
                           final_response |-> final_response])
        /\ pc' = "done"

\* run, lines 181 and 196-214: the terminal text is not blank
Finish ==
    /\ pc = "finalize" /\ ~IsBlank(final_text)
    /\ Complete(final_text, events)
    /\ UNCHANGED <<has_session, query, mode, scope, max_turns, turn, contents,
                   executed_calls, raw_plan, pending, response_parts, parts_seen>>

\* run, lines 181-214: the terminal text is blank, the fallback request is made
Fallback(resp) ==
    /\ pc = "finalize" /\ IsBlank(final_text)
    /\ contents' = Append(contents, UserTurn(<<[text |-> FallbackPrompt]>>))
    /\ LET asked == Append(events,
                       [ev |-> "responder", kind |-> "fallback", tools |-> None,
                        turn |-> turn, conversation |-> Len(contents'),
                        terminal_text |-> final_text, response |-> resp])
       IN  IF ~resp.candidates \/ resp.parts = None
           THEN /\ pc' = "failed"
                /\ events' = Append(asked, [ev |-> "raise",
                                              error |-> IF ~resp.candidates
                                                        THEN "IndexError"
                                                        ELSE "TypeError"])
                /\ UNCHANGED <<final_text, session_state, session_file, result>>
           ELSE Complete(final_text \o Concat(FallbackTexts(resp.parts[1])), asked)
    /\ parts_seen' = parts_seen + PartCount(resp)
    /\ UNCHANGED <<has_session, query, mode, scope, max_turns, turn, executed_calls,
                   raw_plan, pending, response_parts>>

\* run, lines 186-190 when generate_content raises
FallbackTransportError ==
    /\ pc = "finalize" /\ IsBlank(final_text)
    /\ contents' = Append(contents, UserTurn(<<[text |-> FallbackPrompt]>>))
    /\ pc' = "failed"
    /\ events' = Append(events, [ev |-> "raise", error |-> "transport", during |-> "fallback"])
    /\ UNCHANGED <<has_session, session_state, session_file, query, mode, scope,
                   max_turns, turn, executed_calls, raw_plan, final_text, pending,
                   response_parts, parts_seen, result>>

Next ==
    \/ \E q \in Queries, m \in StartModes, sc \in StartScopes,
          mt \in 0..MaxTurns : Start(q, m, sc, mt)
    \/ \E resp \in LoopResponses(MaxTotalParts - parts_seen) : LoopTurn(resp)
    \/ LoopTransportError
    \/ LoopExit
    \/ Dispatch
    \/ Finish
    \/ \E resp \in FallbackResponses(MaxTotalParts - parts_seen) : Fallback(resp)
    \/ FallbackTransportError

Spec == Init /\ [][Next]_vars

(***************************************************************************)
(* What a run was asked and what it did, read off the events.              *)
(***************************************************************************)
IsLoopCall(e) == e.ev = "responder" /\ e.kind = "loop"
IsFallbackCall(e) == e.ev = "responder" /\ e.kind = "fallback"
IsSave(e) == e.ev = "save_session"
IsGatewayCall(e) == e.ev = "gateway"

LoopCalls == SelectSeq(events, IsLoopCall)
FallbackCalls == SelectSeq(events, IsFallbackCall)
Saves == SelectSeq(events, IsSave)

\* the positions of the events that satisfy a test
LoopCallPositions == {i \in 1..Len(events) : IsLoopCall(events[i])}
FallbackPositions == {i \in 1..Len(events) : IsFallbackCall(events[i])}
SavePositions == {i \in 1..Len(events) : IsSave(events[i])}

\* the parts of a response, none when it has no candidate or no parts
PartsOf(resp) == IF resp.candidates /\ resp.parts # None THEN resp.parts[1] ELSE <<>>

\* the tool calls a response requests, in the order returned
RECURSIVE CallsIn(_)
CallsIn(ps) ==
    IF ps = <<>> THEN <<>>
    ELSE IF Head(ps).function_call # None
         THEN <<[tool_name |-> Head(ps).function_call[1].name,
                 args |-> Head(ps).function_call[1].args]>> \o CallsIn(Tail(ps))
         ELSE CallsIn(Tail(ps))

RequestedCalls(resp) == CallsIn(PartsOf(resp))

\* the tool calls requested by the loop responses from the k-th on
RECURSIVE RequestedFrom(_, _)
RequestedFrom(calls, k) ==
    IF k > Len(calls) THEN <<>>
    ELSE RequestedCalls(calls[k].response) \o RequestedFrom(calls, k + 1)

NameAndArgs(s) == [i \in 1..Len(s) |-> [tool_name |-> s[i].tool_name, args |-> s[i].args]]

TheResult == result[1]

(***************************************************************************)
(* C1: the returned tool_call_plan is empty or exactly the tool calls      *)
(* (name and arguments, in order) of the responder's turn-1 response;      *)
(* calls requested on later turns never enter it, and it is empty when     *)
(* turn 1 requested no tool call.  It holds of raw_plan throughout the run *)
(* and of the plan in the result.                                          *)
(***************************************************************************)
TurnOneCalls == IF LoopCalls = <<>> THEN <<>> ELSE RequestedCalls(LoopCalls[1].response)

C1_PlanIsTurnOne ==
    /\ NameAndArgs(raw_plan) = TurnOneCalls
    /\ result # None => NameAndArgs(TheResult.tool_call_plan) = TurnOneCalls

\* a finished run whose turn 1 requested two calls and whose turn 2 another one
C1_Witness ==
    /\ pc = "done"
    /\ Len(LoopCalls) = 2
    /\ Len(TurnOneCalls) = 2
    /\ RequestedCalls(LoopCalls[2].response) # <<>>
    /\ Len(TheResult.executed_tool_calls) = 3
    /\ Len(TheResult.tool_call_plan) = 2

(***************************************************************************)
(* C7: on every loop turn the tool set offered to the responder holds,     *)
(* with scope files-only, every declared tool but get_issues and           *)
(* get_pull_requests, and with scope include-pr all six declared tools.    *)
(***************************************************************************)
NamesIn(s) == {s[i] : i \in 1..Len(s)}

C7_ToolSetPerScope ==
    \A i \in LoopCallPositions :
        /\ events[i].tools # None
        /\ scope = "files-only" =>
               NamesIn(events[i].tools[1]) =
                   {"search_repo", "open_file", "get_repo_stats", "list_files"}
        /\ scope = "include-pr" =>
               NamesIn(events[i].tools[1]) =
                   {"search_repo", "open_file", "get_issues", "get_pull_requests",
                    "get_repo_stats", "list_files"}

\* a files-only run that reached its second loop turn
C7_Witness ==
    /\ scope = "files-only"
    /\ Len(LoopCalls) = 2
    /\ "get_issues" \notin NamesIn(LoopCalls[2].tools[1])

(***************************************************************************)
(* C6: with scope files-only, dispatching get_issues or get_pull_requests  *)
(* returns, for every argument map, the error "<tool> not available in     *)
(* files-only scope", and no run with that scope ever invokes the          *)
(* gateway's get_issues or get_pull_requests.                              *)
(***************************************************************************)
TrackerTools == {"get_issues", "get_pull_requests"}

ArgMaps ==
    {<<>>, [query |-> "auth"], [state |-> "all", limit |-> 5],
     [query |-> "login", state |-> "closed", limit |-> 1]}

NotAvailable(name) == [error |-> name \o " not available in files-only scope"]

\* the dispatch on its own reads no state: it is looked at once, before the run
C6_FilesOnlyGate ==
    /\ pc = "idle" =>
          \A name \in TrackerTools, a \in ArgMaps :
              \A out \in GatewayOutcomes(name, a) :
                  LET done == ExecuteTool(name, a, "files-only", out)
                  IN  /\ done.ops = <<>>
                      /\ done.outcome = Returned(NotAvailable(name))
    /\ scope = "files-only" =>
          /\ \A i \in 1..Len(events) :
                IsGatewayCall(events[i]) => events[i].op \notin TrackerTools
          /\ \A k \in 1..Len(executed_calls) :
                executed_calls[k].tool_name \in TrackerTools =>
                    /\ executed_calls[k].result = NotAvailable(executed_calls[k].tool_name)
                    /\ executed_calls[k].error =
                           Some(NotAvailable(executed_calls[k].tool_name).error)

\* a finished files-only run that was asked for both tracker tools
C6_Witness ==
    /\ pc = "done"
    /\ scope = "files-only"
    /\ \E j, k \in 1..Len(executed_calls) :
          /\ executed_calls[j].tool_name = "get_issues"
          /\ executed_calls[k].tool_name = "get_pull_requests"

(***************************************************************************)
(* The tool results sent back to the responder, read off the conversation. *)
(***************************************************************************)
RECURSIVE ResponsesIn(_)
ResponsesIn(ps) ==
    IF ps = <<>> THEN <<>>
    ELSE IF "function_response" \in DOMAIN Head(ps)
         THEN <<Head(ps).function_response>> \o ResponsesIn(Tail(ps))
         ELSE ResponsesIn(Tail(ps))

RECURSIVE ResponsesFrom(_, _)
ResponsesFrom(cs, k) ==
    IF k > Len(cs) THEN <<>>
    ELSE (IF cs[k].role = "user" THEN ResponsesIn(cs[k].parts) ELSE <<>>)
         \o ResponsesFrom(cs, k + 1)

\* those of the finished tool turns, then those of the turn being dispatched
SentBack == ResponsesFrom(contents, 1) \o ResponsesIn(response_parts)

PendingCalls == [i \in 1..Len(pending) |-> [tool_name |-> pending[i].name,
                                             args |-> pending[i].args]]

(***************************************************************************)
(* C10: executed_tool_calls is exactly the sequence of tool calls the      *)
(* responder requested, in turn order and, within a turn, in the order     *)
(* returned: one entry per requested call, with that call's name, its      *)
(* arguments and the result its dispatch sent back to the responder.       *)
(* While a turn is being dispatched the entries and the calls still        *)
(* pending make up the requested sequence.                                 *)
(***************************************************************************)
C10_ExecutedAreRequested ==
    LET sent == SentBack
    IN
    /\ NameAndArgs(executed_calls) \o PendingCalls = RequestedFrom(LoopCalls, 1)
    /\ pc # "dispatch" => pending = <<>>
    /\ Len(sent) = Len(executed_calls)
    /\ \A i \in 1..Len(executed_calls) :
          /\ sent[i].name = executed_calls[i].tool_name
          /\ sent[i].response = executed_calls[i].result
    /\ result # None =>
          /\ TheResult.executed_tool_calls = executed_calls
          /\ NameAndArgs(TheResult.executed_tool_calls) = RequestedFrom(LoopCalls, 1)

\* a finished run of two tool turns, one call then two, with different results
C10_Witness ==
    /\ pc = "done"
    /\ Len(LoopCalls) = 2
    /\ Len(RequestedCalls(LoopCalls[1].response)) = 1
    /\ Len(RequestedCalls(LoopCalls[2].response)) = 2
    /\ Len(TheResult.executed_tool_calls) = 3
    /\ TheResult.executed_tool_calls[2].tool_name # TheResult.executed_tool_calls[3].tool_name
    /\ TheResult.executed_tool_calls[2].result # TheResult.executed_tool_calls[3].result

(***************************************************************************)
(* C5: a tool call that fails (the gateway raises, the tool name is         *)
(* unknown, the tool is outside the scope) never aborts the run: no        *)
(* exception of a dispatch leaves run; the failure is the error of that    *)
(* call's ExecutedToolCall; the other calls of its batch are dispatched;   *)
(* the error result is sent back in the tool-response turn; and the        *)
(* responder is called again when turns remain.                            *)
(***************************************************************************)
KnownTools ==
    {"search_repo", "open_file", "get_issues", "get_pull_requests", "get_repo_stats",
     "list_files"}

CallFails(c, sc) ==
    \/ c.tool_name \notin KnownTools
    \/ sc = "files-only" /\ c.tool_name \in TrackerTools
    \/ c.tool_name \in KnownTools
         /\ \A out \in GatewayOutcomes(c.tool_name, c.args) : out.raised

HasFailingCall(resp, sc) ==
    \E i \in 1..Len(RequestedCalls(resp)) : CallFails(RequestedCalls(resp)[i], sc)

C5_ToolFailureIsLocal ==
    LET calls == LoopCalls
        sent == SentBack
    IN
    /\ \A i \in 1..Len(events) :
          events[i].ev = "raise" => events[i].error # "tool"
    /\ \A i \in 1..Len(executed_calls) :
          CallFails(executed_calls[i], scope) =>
              /\ executed_calls[i].error # None
              /\ "error" \in DOMAIN executed_calls[i].result
              /\ executed_calls[i].error = Some(executed_calls[i].result.error)
              /\ i <= Len(sent)
              /\ sent[i].response = executed_calls[i].result
    /\ pc \in {"loop", "finalize", "done"} =>
          /\ Len(executed_calls) = Len(RequestedFrom(calls, 1))
          /\ Len(ResponsesFrom(contents, 1)) = Len(executed_calls)
    /\ pc \in {"finalize", "done"} =>
          \A k \in 1..Len(calls) :
              HasFailingCall(calls[k].response, scope) /\ k < max_turns =>
                  Len(calls) > k

\* a finished run whose first turn asked for a failing call and then another
\* call: both ran, the first is an error, and the responder was called again
C5_Witness ==
    /\ pc = "done"
    /\ Len(LoopCalls) = 2
    /\ Len(RequestedCalls(LoopCalls[1].response)) = 2
    /\ CallFails(RequestedCalls(LoopCalls[1].response)[1], scope)
    /\ ~CallFails(RequestedCalls(LoopCalls[1].response)[2], scope)
    /\ Len(executed_calls) = 2
    /\ executed_calls[1].error # None
    /\ executed_calls[2].error = None

(***************************************************************************)
(* C2: in a run that returns a result, the fallback request is issued      *)
(* exactly when the terminal text is blank after the loop; it is issued at *)
(* most once, after every loop turn and every tool dispatch, with no tool  *)
(* set; and the terminal text then becomes the concatenation of the text   *)
(* fragments of the fallback response.                                     *)
(***************************************************************************)
\* the non-empty texts of the parts of a response, in order
RECURSIVE FragmentsIn(_)
FragmentsIn(ps) ==
    IF ps = <<>> THEN <<>>
    ELSE (IF Head(ps).text # None /\ Head(ps).text[1] # <<>>
          THEN <<Head(ps).text[1]>> ELSE <<>>) \o FragmentsIn(Tail(ps))

RECURSIVE Flatten(_)
Flatten(ts) == IF ts = <<>> THEN <<>> ELSE Head(ts) \o Flatten(Tail(ts))

AllWhitespace(t) == \A i \in 1..Len(t) : t[i] \in {SP, NL}

\* the terminal text the loop left
TextAfterLoop ==
    IF FallbackCalls # <<>> THEN FallbackCalls[1].terminal_text ELSE final_text

C2_FallbackIssued ==
    pc = "done" =>
        /\ Len(FallbackCalls) <= 1
        /\ Len(FallbackCalls) = 1 <=> AllWhitespace(TextAfterLoop)
        /\ \A i \in FallbackPositions :
              /\ events[i].tools = None
              /\ \A j \in 1..Len(events) :
                    IsLoopCall(events[j]) \/ IsGatewayCall(events[j]) => j < i

C2_FallbackContract ==
    /\ C2_FallbackIssued
    /\ pc = "done" /\ FallbackCalls # <<>> =>
          final_text = Flatten(FragmentsIn(PartsOf(FallbackCalls[1].response)))

(***************************************************************************)
(* C3, as stated: in a run that returns a result, if the loop used all     *)
(* its max_turns, its last turn requested tool calls and no turn was a     *)
(* text-only answer, then the fallback request was issued exactly once,    *)
(* and answer_text is non-empty exactly when the fallback response has a   *)
(* text fragment.                                                          *)
(***************************************************************************)
\* the texts of the parts of a response that are no function call
RECURSIVE ProseIn(_)
ProseIn(ps) ==
    IF ps = <<>> THEN <<>>
    ELSE (IF Head(ps).function_call = None /\ Head(ps).text # None
               /\ Head(ps).text[1] # <<>>
          THEN <<Head(ps).text[1]>> ELSE <<>>) \o ProseIn(Tail(ps))

IsTextOnly(resp) == RequestedCalls(resp) = <<>> /\ ProseIn(PartsOf(resp)) # <<>>

LoopExhaustedOnToolCalls ==
    /\ pc = "done"
    /\ max_turns >= 1
    /\ Len(LoopCalls) = max_turns
    /\ RequestedCalls(LoopCalls[max_turns].response) # <<>>
    /\ \A k \in 1..Len(LoopCalls) : ~IsTextOnly(LoopCalls[k].response)

FallbackFragments ==
    IF FallbackCalls = <<>> THEN <<>> ELSE FragmentsIn(PartsOf(FallbackCalls[1].response))

WithProse == {k \in 1..Len(LoopCalls) : ProseIn(PartsOf(LoopCalls[k].response)) # <<>>}

NoTextLeftByLoop ==
    \A k \in WithProse :
        (\A j \in WithProse : j <= k) =>
            \A i \in 1..Len(ProseIn(PartsOf(LoopCalls[k].response))) :
                AllWhitespace(ProseIn(PartsOf(LoopCalls[k].response))[i])

Markup == {"-", "+", FENCE} \cup HeadingAtoms

PlainProse(t) ==
    /\ ~AllWhitespace(t)
    /\ \A i \in 1..Len(t) : t[i] \notin Markup

PositionsOf(kind) == {i \in 1..Len(events) : events[i].ev = kind}

\* every session write comes after the consolidation, the composition, every
\* responder call and every gateway call
WritesComeLast ==
    \A i \in SavePositions :
        /\ \E j \in PositionsOf("consolidate") : j < i
        /\ \E j \in PositionsOf("compose") : j < i
        /\ \A j \in PositionsOf("responder") \cup PositionsOf("gateway") : j < i

MaxExecuted == 3

\* what the gateway may answer to a call of the tool
ConsolidateOutcomes(tool_name) ==
    CASE tool_name = "search_repo" ->
            {Returned(<<Chunk1, Chunk2>>), Returned(<<Chunk2>>), Returned(<<>>)}
      [] tool_name = "open_file" ->
            {GatewayOpenFile(Some("auth.py"), Some(1), Some(10)),
             GatewayOpenFile(Some("auth.py"), None, None),
             GatewayOpenFile(Some("nope.py"), None, None)}
      [] tool_name = "get_issues" -> {Returned(<<Issue1>>)}
      [] tool_name = "get_pull_requests" -> {Returned(<<PullRequest1>>)}
      [] tool_name = "get_repo_stats" -> {Returned(RepoStats)}
      [] tool_name = "list_files" -> {Returned(<<"auth.py", "middleware.py">>)}
      [] OTHER -> {Raised("no such operation")}

\* the entries the dispatcher can produce for these answers, the refusal of an
\* issue lookup in files-only scope, and an entry whose result is no dict
ExecutedUniverse ==
    UNION {{ExecutedToolCall(name, <<>>,
                             ExecuteTool(name, <<>>, "include-pr", out).outcome.value) :
               out \in ConsolidateOutcomes(name)} :
           name \in {"search_repo", "open_file", "get_issues", "get_pull_requests",
                     "get_repo_stats", "list_files", "rm_rf"}}
        \cup {ExecutedToolCall("get_issues", <<>>,
                               ExecuteTool("get_issues", <<>>, "files-only",
                                           Returned(<<Issue1>>)).outcome.value),
              ExecutedToolCall("search_repo", <<>>, NotADict(<<Chunk1>>))}

InitConsolidate ==
    /\ pc = "executed"
    /\ executed_calls \in SeqsUpTo(ExecutedUniverse, MaxExecuted)
    /\ has_session = FALSE
    /\ session_state = NewSessionState("explain", "include-pr")
    /\ session_file = session_state
    /\ query = "" /\ mode = "" /\ scope = "" /\ max_turns = 0
    /\ turn = 0
    /\ contents = <<>>
    /\ raw_plan = <<>>
    /\ final_text = <<>>
    /\ pending = <<>>
    /\ response_parts = <<>>
    /\ events = <<>>
    /\ parts_seen = 0
    /\ result = None

\* _consolidate_evidence applied to the list and to the list followed by itself
Consolidate ==
    /\ pc = "executed"
    /\ pc' = "consolidated"
    /\ result' = Some([evidence |-> ConsolidateEvidence(executed_calls),
                       evidence_of_twice |->
                           ConsolidateEvidence(executed_calls \o executed_calls)])
    /\ UNCHANGED <<has_session, session_state, session_file, query, mode, scope,
                   max_turns, turn, contents, executed_calls, raw_plan, final_text,
                   pending, response_parts, events, parts_seen>>

\* _consolidate_evidence applied to the list, to its first k entries and to each
\* entry alone
ConsolidateParts(k) ==
    /\ pc = "executed"
    /\ pc' = "parts"
    /\ result' = Some([evidence |-> ConsolidateEvidence(executed_calls),
                       prefix |-> k,
                       evidence_of_prefix |->
                           ConsolidateEvidence(SubSeq(executed_calls, 1, k)),
                       evidence_of_each |->
                           [i \in 1..Len(executed_calls) |->
                               ConsolidateEvidence(<<executed_calls[i]>>)]])
    /\ UNCHANGED <<has_session, session_state, session_file, query, mode, scope,
                   max_turns, turn, contents, executed_calls, raw_plan, final_text,
                   pending, response_parts, events, parts_seen>>

NextConsolidate ==
    \/ Consolidate
    \/ \E k \in 0..Len(executed_calls) : ConsolidateParts(k)

SpecConsolidate == InitConsolidate /\ [][NextConsolidate]_vars

(***************************************************************************)
(* C8: no two citations returned by _consolidate_evidence share a natural  *)
(* key, the key of a file citation being (file_path, start_line, end_line) *)
(* and the key of an issue or pull request citation (kind, number); this   *)
(* holds across tools: a search_repo match and an open_file result for the *)
(* same span yield one citation.                                           *)
(***************************************************************************)
NaturalKey(c) ==
    IF c.source_type = "file" THEN <<"file", c.file_path, c.start_line, c.end_line>>
    ELSE <<c.source_type, c.ref_id>>

C8_KeysAreUnique ==
    pc = "consolidated" =>
        \A i, j \in 1..Len(TheResult.evidence) :
            i # j => NaturalKey(TheResult.evidence[i]) # NaturalKey(TheResult.evidence[j])

HasSpan(c, path, first, last) ==
    /\ c.source_type = "file" /\ c.file_path = path
    /\ c.start_line = Some(first) /\ c.end_line = Some(last)

\* an open_file result and a search_repo match for auth.py 1-10, and an issue and
\* a pull request of the same number
C8_Witness ==
    /\ pc = "consolidated"
    /\ Len(executed_calls) = 3
    /\ executed_calls[1].tool_name = "open_file"
    /\ "file_path" \in DOMAIN executed_calls[1].result
    /\ executed_calls[1].result.start_line = 1 /\ executed_calls[1].result.end_line = 10
    /\ executed_calls[2].tool_name = "search_repo"
    /\ "results" \in DOMAIN executed_calls[2].result
    /\ executed_calls[2].result.results = <<Chunk1, Chunk2>>
    /\ executed_calls[3].tool_name = "get_issues"
    /\ Len(TheResult.evidence) = 3
    /\ Cardinality({i \in 1..3 : HasSpan(TheResult.evidence[i], "auth.py", 1, 10)}) = 1

(***************************************************************************)
(* C9: _consolidate_evidence(xs ++ xs) equals _consolidate_evidence(xs),   *)
(* the same citations in the same order, for every list xs of executed     *)
(* tool calls.                                                             *)
(***************************************************************************)
C9_TwiceIsOnce ==
    pc = "consolidated" => TheResult.evidence_of_twice = TheResult.evidence

\* a list of an issue, a pull request and a search: four citations
C9_Witness ==
    /\ pc = "consolidated"
    /\ Len(executed_calls) = 3
    /\ {executed_calls[i].tool_name : i \in 1..3} =
           {"get_issues", "get_pull_requests", "search_repo"}
    /\ Len(TheResult.evidence) = 4
    /\ Len(TheResult.evidence_of_twice) = 4

(***************************************************************************)
(* C11: run called with a mode outside {explain, locate, suggest, patch}   *)
(* or a scope outside {files-only, include-pr} fails with an invalid       *)
(* argument error (ValueError) before any responder call: nothing but the  *)
(* raise happens, no gateway operation, no tool dispatch, no session       *)
(* write, no result.                                                       *)
(***************************************************************************)
BadArguments ==
    \/ mode \notin {"explain", "locate", "suggest", "patch"}
    \/ scope \notin {"files-only", "include-pr"}

C11_InvalidArgumentRejected ==
    pc # "idle" /\ BadArguments =>
        /\ pc = "failed"
        /\ events = <<[ev |-> "raise", error |-> "ValueError"]>>
        /\ LoopCalls = <<>> /\ FallbackCalls = <<>> /\ Saves = <<>>
        /\ executed_calls = <<>> /\ contents = <<>>
        /\ session_file = NewSessionState("explain", "include-pr")
        /\ result = None

\* a run with a valid mode and an invalid scope, rejected
C11_Witness ==
    /\ pc = "failed"
    /\ mode = "patch" /\ scope = "all"
    /\ events = <<[ev |-> "raise", error |-> "ValueError"]>>

(***************************************************************************)
(* C12: when a responder call fails at transport level, in a loop turn or  *)
(* in the fallback call, run does not send the request again: the failure  *)
(* is the last thing the run does, no responder call follows it, no        *)
(* OrchestratorResult is returned and the session is not written.          *)
(***************************************************************************)
TransportFailures ==
    {i \in 1..Len(events) : events[i].ev = "raise" /\ events[i].error = "transport"}

C12_TransportFailureIsFatal ==
    \A i \in TransportFailures :
        /\ i = Len(events)
        /\ pc = "failed"
        /\ result = None
        /\ Saves = <<>>
        /\ session_file = NewSessionState("explain", "include-pr")
        /\ events[i].during = "loop" => Len(LoopCalls) = turn - 1 /\ FallbackCalls = <<>>
        /\ events[i].during = "fallback" => FallbackCalls = <<>>

\* a fallback call that fails after a tool turn
C12_Witness ==
    /\ pc = "failed"
    /\ executed_calls # <<>>
    /\ events[Len(events)] = [ev |-> "raise", error |-> "transport", during |-> "fallback"]

\* a second loop call that fails after a tool turn
C12_WitnessLoop ==
    /\ pc = "failed"
    /\ executed_calls # <<>>
    /\ events[Len(events)] = [ev |-> "raise", error |-> "transport", during |-> "loop"]

(***************************************************************************)
(* C13: whatever the responder answers, a run terminates, with at most     *)
(* max_turns responder calls inside the turn loop and at most              *)
(* max_turns + 1 responder calls in all, the extra one being the fallback. *)
(* Termination is shown by a measure: a run that has not ended can always  *)
(* take a step, and every step makes the natural number Remaining smaller. *)
(***************************************************************************)
Ended == pc \in {"done", "failed"}

\* the steps a run may still take, at most
Remaining ==
    CASE pc = "idle" -> (MaxTurns + 1) * (MaxParts + 1) + 3
      [] pc = "loop" -> (max_turns - turn) * (MaxParts + 1) + 2
      [] pc = "dispatch" -> (max_turns - turn) * (MaxParts + 1) + 2 + Len(pending)
      [] pc = "finalize" -> 1
      [] OTHER -> 0

CallsWithinBudget ==
    /\ Len(LoopCalls) <= max_turns
    /\ Len(FallbackCalls) <= 1
    /\ Len(LoopCalls) + Len(FallbackCalls) <= max_turns + 1
    /\ turn <= max_turns
    /\ Remaining >= 0

C13_RunTerminates ==
    /\ [](CallsWithinBudget /\ (~Ended => ENABLED Next))
    /\ [][Remaining' < Remaining]_vars

\* a finished run that made max_turns loop calls and the fallback call
C13_Witness ==
    /\ pc = "done"
    /\ max_turns = 2
    /\ Len(LoopCalls) = 2
    /\ Len(FallbackCalls) = 1

(***************************************************************************)
(* C14: when the responder returns no content on a loop turn (no           *)
(* candidates, or no parts), the loop ends on that turn: no tool is        *)
(* dispatched on it, no further loop call is made, and the terminal text   *)
(* the loop leaves is what was accumulated before that turn, possibly      *)
(* empty.                                                                  *)
(***************************************************************************)
IsEmptyResponse(resp) == ~resp.candidates \/ resp.parts = None \/ resp.parts[1] = <<>>

RECURSIVE JoinedByNewline(_)
JoinedByNewline(ts) ==
    IF ts = <<>> THEN <<>>
    ELSE IF Len(ts) = 1 THEN ts[1]
    ELSE ts[1] \o <<"\n">> \o JoinedByNewline(Tail(ts))

\* the text left by the loop turns before the k-th
AccumulatedBefore(k) ==
    LET earlier == {j \in WithProse : j < k}
    IN  IF earlier = {} THEN <<>>
        ELSE LET last == CHOOSE j \in earlier : \A i \in earlier : i <= j
             IN  JoinedByNewline(ProseIn(PartsOf(LoopCalls[last].response)))

C14_NoContentEndsLoop ==
    \A i \in LoopCallPositions :
        IsEmptyResponse(events[i].response) =>
            /\ \A j \in (i + 1)..Len(events) :
                  ~IsLoopCall(events[j]) /\ ~IsGatewayCall(events[j])
            /\ events[i].turn = Len(LoopCalls)
            /\ pc # "loop" /\ pc # "dispatch"
            /\ TextAfterLoop = AccumulatedBefore(events[i].turn)

\* tool calls with text on turn 1, no content on turn 2: the run ends with the
\* text of turn 1 and without a fallback
C14_Witness ==
    /\ pc = "done"
    /\ max_turns > 1
    /\ Len(LoopCalls) = 2
    /\ IsEmptyResponse(LoopCalls[2].response)
    /\ executed_calls # <<>>
    /\ FallbackCalls = <<>>
    /\ final_text = <<"a">>

(***************************************************************************)
(* C15: when the terminal text is empty after the loop and the fallback    *)
(* response yields nothing (no candidates, no parts, or no text parts),    *)
(* run completes normally: the caller receives a result whose answer_text  *)
(* is empty, and no error is raised.                                       *)
(***************************************************************************)
YieldsNothing(resp) == FragmentsIn(PartsOf(resp)) = <<>>

EmptyFallbacks ==
    {i \in FallbackPositions :
        events[i].terminal_text = <<>> /\ YieldsNothing(events[i].response)}

C15_EmptyFallbackCompletes ==
    \A i \in EmptyFallbacks :
        /\ pc = "done"
        /\ \A j \in 1..Len(events) : events[j].ev # "raise"
        /\ result # None
        /\ TheResult.final_response.answer_text = <<>>

\* the case that does complete: the fallback response has parts, none with text
C15_NoTextFallbackCompletes ==
    \A i \in EmptyFallbacks :
        events[i].response.candidates /\ events[i].response.parts # None =>
            /\ pc = "done"
            /\ result # None
            /\ TheResult.final_response.answer_text = <<>>

(***************************************************************************)
(* The session update of a run on its own (run, lines 199-207): the        *)
(* session state before it, the composed answer_text and the executed tool *)
(* calls are drawn from bounded sets; the update is applied to the         *)
(* consolidated evidence.                                                  *)
(***************************************************************************)
\* an answer of n characters
AnswerOfLength(n) == [i \in 1..n |-> "a"]

AnswerTexts ==
    {<<>>, <<"a", SP, "a">>, AnswerOfLength(SummaryLen), AnswerOfLength(SummaryLen + 1)}

\* a session whose two lists are at their caps
FullSessionState ==
    [recent_queries |-> [i \in 1..MaxRecentQueries |-> [query |-> "earlier", summary |-> <<>>]],
     selected_evidence_refs |->
         [i \in 1..MaxEvidenceRefs |->
             [file_path |-> "old.py", start_line |-> Some(i), end_line |-> Some(i)]],
     user_settings |-> [mode |-> "explain", scope |-> "include-pr", verbose |-> FALSE]]

\* a session that already holds the reference auth.py 1-10
SeenSessionState ==
    AddEvidence(NewSessionState("explain", "include-pr"),
                <<[file_path |-> "auth.py", start_line |-> Some(1), end_line |-> Some(10)]>>)

PriorSessionStates ==
    {NewSessionState("explain", "include-pr"), SeenSessionState, FullSessionState}

InitUpdate ==
    /\ pc = "composed"
    /\ executed_calls \in SeqsUpTo(ExecutedUniverse, MaxExecuted - 1)
    /\ final_text \in AnswerTexts
    /\ session_state \in PriorSessionStates
    /\ session_file = session_state
    /\ has_session = TRUE
    /\ query = "Where is auth handled?" /\ mode = "explain" /\ scope = "include-pr"
    /\ max_turns = 0
    /\ turn = 0
    /\ contents = <<>>
    /\ raw_plan = <<>>
    /\ pending = <<>>
    /\ response_parts = <<>>
    /\ events = <<>>
    /\ parts_seen = 0
    /\ result = None

\* run, lines 196 and 199-207, with final_text standing for the composed
\* answer_text
RunSessionUpdate ==
    /\ pc = "composed"
    /\ LET evidence == ConsolidateEvidence(executed_calls)
           saves == UpdateSession(session_state, query, final_text, evidence)
       IN  /\ events' = <<[ev |-> "session_before", state |-> session_state]>> \o saves
           /\ session_state' = saves[Len(saves)].saved
           /\ session_file' = saves[Len(saves)].saved
           /\ result' = Some([consolidated_evidence |-> evidence])
    /\ pc' = "updated"
    /\ UNCHANGED <<has_session, query, mode, scope, max_turns, turn, contents,
                   executed_calls, raw_plan, final_text, pending, response_parts,
                   parts_seen>>

NextUpdate == RunSessionUpdate

SpecUpdate == InitUpdate /\ [][NextUpdate]_vars

(***************************************************************************)
(* C16: the session update of a run records the query with a summary that  *)
(* is the first at most 300 characters of answer_text, and adds evidence   *)
(* references only for citations of source type file: every reference it   *)
(* adds is the span of a file citation, every file citation is referenced  *)
(* afterwards, and no issue or pull request citation is.                   *)
(***************************************************************************)
FirstAtMost(t, n) == [i \in 1..(IF Len(t) < n THEN Len(t) ELSE n) |-> t[i]]

SpanOf(r) == <<r.file_path, r.start_line, r.end_line>>

SpansIn(rs) == {SpanOf(rs[i]) : i \in 1..Len(rs)}

CitationsOfType(cs, types) == {i \in 1..Len(cs) : cs[i].source_type \in types}

C16_SessionUpdateContent ==
    pc = "updated" =>
        LET before == events[1].state
            cs == TheResult.consolidated_evidence
            files == {SpanOf(cs[i]) : i \in CitationsOfType(cs, {"file"})}
            added == SpansIn(session_state.selected_evidence_refs)
                         \ SpansIn(before.selected_evidence_refs)
            queries == session_state.recent_queries
        IN  /\ queries # <<>>
            /\ queries[Len(queries)] =
                   [query |-> query, summary |-> FirstAtMost(final_text, 300)]
            /\ added \subseteq files
            /\ files \subseteq SpansIn(session_state.selected_evidence_refs)
            /\ \A i \in CitationsOfType(cs, {"issue", "pr"}) :
                  \A k \in 1..Len(session_state.selected_evidence_refs) :
                      session_state.selected_evidence_refs[k].file_path # cs[i].file_path
            /\ session_file = session_state

\* a run with a 301-character answer, a file citation and an issue citation, on
\* a session at its caps
C16_Witness ==
    /\ pc = "updated"
    /\ Len(final_text) = 301
    /\ Len(session_state.recent_queries[Len(session_state.recent_queries)].summary) = 300
    /\ events[1].state = FullSessionState
    /\ CitationsOfType(TheResult.consolidated_evidence, {"file"}) # {}
    /\ CitationsOfType(TheResult.consolidated_evidence, {"issue"}) # {}
    /\ session_state.selected_evidence_refs # events[1].state.selected_evidence_refs

(***************************************************************************)
(* The session collaborator on its own: sequences of add_query and         *)
(* add_evidence calls on an active session, at most MaxQueryCalls of the   *)
(* one and MaxEvidenceCalls of the other.  The n-th query is the number n. *)
(* events holds the last call, with the numbers of calls made so far.      *)
(***************************************************************************)
MaxQueryCalls == 11
MaxEvidenceCalls == 3

QueryCalls == IF events = <<>> THEN 0 ELSE events[1].query_calls
EvidenceCalls == IF events = <<>> THEN 0 ELSE events[1].evidence_calls

\* the reference to line k of a file
LineRef(k) == [file_path |-> "f.py", start_line |-> Some(k), end_line |-> Some(k)]

\* references to the lines from..to
LineRefs(from, to) == [i \in 1..(to - from + 1) |-> LineRef(from + i - 1)]

\* references to a whole file: without line numbers, and with line numbers None
WholeFileRef == [file_path |-> "f.py"]
WholeFileRefNone == [file_path |-> "f.py", start_line |-> None, end_line |-> None]

\* the reference to line k with a field the key does not read
NotedRef(k) ==
    [file_path |-> "f.py", start_line |-> Some(k), end_line |-> Some(k), note |-> "seen"]

\* two batches that together exceed the cap, one that repeats itself, and one of
\* references that differ and share their key
EvidenceBatch == (MaxEvidenceRefs \div 2) + 1
EvidenceBatches ==
    {LineRefs(1, EvidenceBatch), LineRefs(EvidenceBatch + 1, 2 * EvidenceBatch),
     <<LineRef(1), LineRef(1), LineRef(2 * EvidenceBatch + 1)>>,
     <<WholeFileRef, NotedRef(1), WholeFileRefNone, LineRef(2 * EvidenceBatch + 1)>>}

SessionSummary == <<"a">>

InitSession ==
    /\ pc = "session"
    /\ session_state = NewSessionState("explain", "include-pr")
    /\ session_file = session_state
    /\ has_session = TRUE
    /\ query = "" /\ mode = "" /\ scope = "" /\ max_turns = 0
    /\ turn = 0
    /\ contents = <<>>
    /\ executed_calls = <<>>
    /\ raw_plan = <<>>
    /\ final_text = <<>>
    /\ pending = <<>>
    /\ response_parts = <<>>
    /\ events = <<>>
    /\ parts_seen = 0
    /\ result = None

\* SessionManager.add_query and the save_session it ends with
SessionAddQuery(summary) ==
    /\ pc = "session"
    /\ QueryCalls < MaxQueryCalls
    /\ session_state' = AddQuery(session_state, QueryCalls + 1, summary)
    /\ events' = <<[ev |-> "add_query", query |-> QueryCalls + 1, summary |-> summary,
                    refs |-> <<>>, query_calls |-> QueryCalls + 1,
                    evidence_calls |-> EvidenceCalls]>>
    /\ session_file' = session_state'
    /\ UNCHANGED <<pc, has_session, query, mode, scope, max_turns, turn, contents,
                   executed_calls, raw_plan, final_text, pending, response_parts,
                   parts_seen, result>>

\* SessionManager.add_evidence and the save_session it ends with
SessionAddEvidence(refs) ==
    /\ pc = "session"
    /\ EvidenceCalls < MaxEvidenceCalls
    /\ session_state' = AddEvidence(session_state, refs)
    /\ events' = <<[ev |-> "add_evidence", query |-> 0, summary |-> <<>>,
                    refs |-> refs, query_calls |-> QueryCalls,
                    evidence_calls |-> EvidenceCalls + 1]>>
    /\ session_file' = session_state'
    /\ UNCHANGED <<pc, has_session, query, mode, scope, max_turns, turn, contents,
                   executed_calls, raw_plan, final_text, pending, response_parts,
                   parts_seen, result>>

NextSession ==
    \/ SessionAddQuery(SessionSummary)
    \/ \E refs \in EvidenceBatches : SessionAddEvidence(refs)

SpecSession == InitSession /\ [][NextSession]_vars

(***************************************************************************)
(* C17: after any sequence of add_query and add_evidence calls,            *)
(* recent_queries holds at most 10 entries and selected_evidence_refs at   *)
(* most 50.  recent_queries is the last 10 of the queries added, in the    *)
(* order added; each add_evidence appends the references of its batch that *)
(* are not held, in order, and then keeps the last 50, so the oldest       *)
(* entries are the ones dropped.                                           *)
(***************************************************************************)
LastAtMost(t, n) ==
    [i \in 1..(IF Len(t) < n THEN Len(t) ELSE n) |->
        t[i + (IF Len(t) < n THEN 0 ELSE Len(t) - n)]]

\* the queries added so far: the numbers 1, 2, ... in the order added
QueriesAdded == [i \in 1..QueryCalls |-> [query |-> i, summary |-> <<"a">>]]

\* the file and the two line numbers of a reference, None for a line number
\* that is not given
KeyOfRef(r) ==
    <<r.file_path,
      IF "start_line" \in DOMAIN r THEN r.start_line ELSE None,
      IF "end_line" \in DOMAIN r THEN r.end_line ELSE None>>

\* the references of a batch whose key is not in held, each key once, in order
RECURSIVE NotHeld(_, _)
NotHeld(held, batch) ==
    IF batch = <<>> THEN <<>>
    ELSE IF KeyOfRef(Head(batch)) \in held THEN NotHeld(held, Tail(batch))
    ELSE <<Head(batch)>> \o NotHeld(held \cup {KeyOfRef(Head(batch))}, Tail(batch))

SessionWithinCaps ==
    /\ Len(session_state.recent_queries) <= 10
    /\ Len(session_state.selected_evidence_refs) <= 50
    /\ session_state.recent_queries = LastAtMost(QueriesAdded, 10)
    /\ session_file = session_state

EvidenceStep ==
    events'[1].ev = "add_evidence" =>
        LET old == session_state.selected_evidence_refs
            held == {KeyOfRef(old[i]) : i \in 1..Len(old)}
        IN  session_state'.selected_evidence_refs =
                LastAtMost(old \o NotHeld(held, events'[1].refs), 50)

C17_SessionCaps ==
    /\ [](pc = "session" => SessionWithinCaps)
    /\ [][pc = "session" => EvidenceStep]_vars

\* eleven queries added, so the first is gone; the first batch was added, pushed
\* out by the second and added again, so its first two references are the newest
C17_Witness ==
    /\ pc = "session"
    /\ QueryCalls = 11
    /\ Len(session_state.recent_queries) = 10
    /\ session_state.recent_queries[1].query = 2
    /\ Len(session_state.selected_evidence_refs) = 50
    /\ session_state.selected_evidence_refs[50] = LineRef(2)
    /\ session_state.selected_evidence_refs[1] = LineRef(5)

(***************************************************************************)
(* _compose_response on its own: the terminal text is drawn from the texts *)
(* made of at most MaxSegments segments (prose, whitespace, fenced diff    *)
(* blocks, a diff header line, a next-steps heading, an item line), the    *)
(* mode from MODES, and the function is applied.                           *)
(***************************************************************************)
MaxSegments == 3

\* <fence>diff\n--- a\n+++ a\n@@\n<fence>
DiffBlockFull ==
    <<FENCE, DIFFWORD, NL, "-", "-", "-", SP, "a", NL, "+", "+", "+", SP, "a", NL,
      "@", "@", NL, FENCE>>
\* <fence>diff\n @@<fence>
DiffBlockShort == <<FENCE, DIFFWORD, NL, SP, "@", "@", FENCE>>
HeaderLine == <<"-", "-", "-", SP, "a", NL>>
HeadingLine == <<"Next Steps", ":", NL>>
ItemLine == <<"-", SP, "a", NL>>
\* an item line that holds its marker and nothing else
BareItemLine == <<"1", ".", SP, NL>>

Segments ==
    {<<"a">>, <<NL>>, <<SP>>, DiffBlockFull, DiffBlockShort, HeaderLine, HeadingLine,
     ItemLine, BareItemLine}

ComposeTexts == {Concat(segs) : segs \in SeqsUpTo(Segments, MaxSegments)}

InitCompose ==
    /\ pc = "terminal"
    /\ final_text \in ComposeTexts
    /\ mode \in MODES
    /\ has_session = FALSE
    /\ session_state = NewSessionState("explain", "include-pr")
    /\ session_file = session_state
    /\ query = "" /\ scope = "" /\ max_turns = 0
    /\ turn = 0
    /\ contents = <<>>
    /\ executed_calls = <<>>
    /\ raw_plan = <<>>
    /\ pending = <<>>
    /\ response_parts = <<>>
    /\ events = <<>>
    /\ parts_seen = 0
    /\ result = None

\* run, line 197: final_response = self._compose_response(final_text, evidence, mode)
Compose ==
    /\ pc = "terminal"
    /\ pc' = "composed"
    /\ result' = Some([final_response |-> ComposeResponse(final_text, <<>>, mode)])
    /\ UNCHANGED <<has_session, session_state, session_file, query, mode, scope,
                   max_turns, turn, contents, executed_calls, raw_plan, final_text,
                   pending, response_parts, events, parts_seen>>

\* _compose_response, line 283: self._extract_patch(raw_text), on its own
ExtractOnly ==
    /\ pc = "terminal"
    /\ pc' = "extracted"
    /\ result' = Some([extracted |-> ExtractPatch(final_text)])
    /\ UNCHANGED <<has_session, session_state, session_file, query, mode, scope,
                   max_turns, turn, contents, executed_calls, raw_plan, final_text,
                   pending, response_parts, events, parts_seen>>

NextCompose ==
    \/ Compose
    \/ ExtractOnly

SpecCompose == InitCompose /\ [][NextCompose]_vars

(***************************************************************************)
(* What a text holds, read off its atoms.                                  *)
(***************************************************************************)
\* the text without the whitespace at its two ends
Trimmed(t) ==
    LET solid == {i \in 1..Len(t) : t[i] \notin {" ", "\n"}}
    IN  IF solid = {} THEN <<>>
        ELSE LET first == CHOOSE i \in solid : \A j \in solid : i <= j
                 last == CHOOSE i \in solid : \A j \in solid : j <= i
             IN  [k \in 1..(last - first + 1) |-> t[first + k - 1]]

\* the fenced diff blocks of a text: <<i, j>> with the opener <fence>diff\n at i
\* and the next fence after the opener at j
FencedDiffs(t) ==
    {b \in (1..Len(t)) \X (1..Len(t)) :
        /\ b[1] + 3 <= b[2]
        /\ t[b[1]] = "<fence>" /\ t[b[1] + 1] = "diff" /\ t[b[1] + 2] = "\n"
        /\ t[b[2]] = "<fence>"
        /\ \A k \in (b[1] + 3)..(b[2] - 1) : t[k] # "<fence>"}

FirstFencedDiff(t) == CHOOSE b \in FencedDiffs(t) : \A c \in FencedDiffs(t) : b[1] <= c[1]

Part(t, from, to) == [k \in 1..(to - from + 1) |-> t[from + k - 1]]

\* the lines of a text that begin with a diff marker, each up to its newline
MarkerAt(t, i) ==
    /\ i = 1 \/ t[i - 1] = "\n"
    /\ \/ i + 2 <= Len(t) /\ t[i] = t[i + 1] /\ t[i + 1] = t[i + 2] /\ t[i] \in {"-", "+"}
       \/ i + 1 <= Len(t) /\ t[i] = "@" /\ t[i + 1] = "@"

LineFrom(t, i) ==
    LET ends == {j \in i..Len(t) : t[j] = "\n"}
    IN  IF ends = {} THEN Part(t, i, Len(t))
        ELSE Part(t, i, (CHOOSE j \in ends : \A k \in ends : j <= k) - 1)

MarkerLines(t) == {LineFrom(t, i) : i \in {k \in 1..Len(t) : MarkerAt(t, k)}}

Fences(t) == Cardinality({i \in 1..Len(t) : t[i] = "<fence>"})

HasHeading(t) ==
    \E i \in 1..Len(t) :
        t[i] \in {"Next Action", "Next Actions", "Next Step", "Next Steps",
                  "Suggested Step", "Suggested Steps", "Recommendation",
                  "Recommendations"}

TheAnswer == TheResult.final_response.answer_text
ThePatch == TheResult.final_response.patch_diff

(***************************************************************************)
(* C18, as stated: when mode is explain, locate or suggest the final       *)
(* response has no patch_diff, even if the text holds a fenced diff block  *)
(* or diff header lines, and those diff lines (and fences) stay in         *)
(* answer_text.                                                            *)
(***************************************************************************)
C18_Original ==
    pc = "composed" /\ mode \in {"explain", "locate", "suggest"} =>
        /\ ThePatch = None
        /\ MarkerLines(final_text) \subseteq MarkerLines(TheAnswer)
        /\ Fences(TheAnswer) = Fences(final_text)

\* the part of C18 that holds: outside patch mode there is no patch_diff, and a
\* text without a next-steps heading is the answer_text, trimmed
C18_NoPatchOutsidePatchMode ==
    pc = "composed" /\ mode \in {"explain", "locate", "suggest"} =>
        /\ ThePatch = None
        /\ ~HasHeading(final_text) => TheAnswer = Trimmed(final_text)

(***************************************************************************)
(* C19: in patch mode, for every text that holds a fenced block labelled   *)
(* diff, patch_diff is the trimmed interior of that block (the first one   *)
(* when there are several) and answer_text does not hold the block: its    *)
(* two fences are gone, and when the text has no next-steps heading        *)
(* answer_text is the text before the block followed by the text after     *)
(* it, trimmed.                                                            *)
(***************************************************************************)
C19_FencedDiffRoundTrip ==
    pc = "composed" /\ mode = "patch" /\ FencedDiffs(final_text) # {} =>
        LET b == FirstFencedDiff(final_text)
            interior == Part(final_text, b[1] + 3, b[2] - 1)
            outside == Part(final_text, 1, b[1] - 1)
                           \o Part(final_text, b[2] + 1, Len(final_text))
        IN  /\ ThePatch = Some(Trimmed(interior))
            /\ Fences(TheAnswer) = Fences(final_text) - 2
            /\ ~HasHeading(final_text) => TheAnswer = Trimmed(outside)

\* prose, a fenced diff whose interior ends with a newline, prose
C19_Witness ==
    /\ pc = "composed" /\ mode = "patch"
    /\ final_text = <<"a">> \o DiffBlockFull \o <<"a">>
    /\ ThePatch = Some(<<"-", "-", "-", " ", "a", "\n", "+", "+", "+", " ", "a", "\n",
                         "@", "@">>)
    /\ TheAnswer = <<"a", "a">>

(***************************************************************************)
(* C20: in patch mode, whenever the terminal text holds a fenced diff,     *)
(* patch_diff holds the ---, +++ and @@ lines of the diff and answer_text  *)
(* holds no diff fencing at all.                                           *)
(***************************************************************************)
HasDiffFencing(t) ==
    \E i \in 1..Len(t) : t[i] = "<fence>" /\ i < Len(t) /\ t[i + 1] = "diff"

PatchHoldsDiffLines ==
    LET b == FirstFencedDiff(final_text)
    IN  /\ ThePatch # None
        /\ MarkerLines(Part(final_text, b[1] + 3, b[2] - 1)) \subseteq MarkerLines(ThePatch[1])

C20_NoFencingLeft ==
    pc = "composed" /\ mode = "patch" /\ FencedDiffs(final_text) # {} =>
        /\ PatchHoldsDiffLines
        /\ ~HasDiffFencing(TheAnswer)

\* the part of C20 that holds: the same for a text with one fenced diff
C20_OneFencedDiff ==
    pc = "composed" /\ mode = "patch" /\ Cardinality(FencedDiffs(final_text)) = 1 =>
        /\ PatchHoldsDiffLines
        /\ ~HasDiffFencing(TheAnswer)

(***************************************************************************)
(* What a text holds, line by line: its next-steps block and what patch    *)
(* extraction leaves of it.                                                *)
(***************************************************************************)
LineStarts(t) == {i \in 1..Len(t) : i = 1 \/ t[i - 1] = "\n"}

\* the line that begins at i is a list item: blanks, then -, *, a digit or a bullet
IsItemStart(t, i) ==
    \E q \in i..Len(t) :
        /\ t[q] \in {"-", "*", "1", "2", "3", "BULLET"}
        /\ \A k \in i..(q - 1) : t[k] = " "

IsHeading(a) ==
    a \in {"Next Action", "Next Actions", "Next Step", "Next Steps",
           "Suggested Step", "Suggested Steps", "Recommendation", "Recommendations",
           "next actions", "NEXT STEPS"}

\* <<h, p>>: a heading at h, then whitespace with at most one colon up to a line
\* break, then a list item line at p
HeadedLists(t) ==
    {b \in (1..Len(t)) \X (1..Len(t)) :
        /\ IsHeading(t[b[1]])
        /\ b[1] < b[2]
        /\ b[2] \in LineStarts(t)
        /\ IsItemStart(t, b[2])
        /\ \A k \in (b[1] + 1)..(b[2] - 1) : t[k] \in {" ", "\n", ":"}
        /\ Cardinality({k \in (b[1] + 1)..(b[2] - 1) : t[k] = ":"}) <= 1}

FirstHeadedList(t) == CHOOSE b \in HeadedLists(t) : \A c \in HeadedLists(t) : b[1] <= c[1]

\* the consecutive list item lines from position p on
RECURSIVE ItemLinesFrom(_, _)
ItemLinesFrom(t, p) ==
    IF p > Len(t) \/ ~IsItemStart(t, p) THEN <<>>
    ELSE <<LineFrom(t, p)>> \o ItemLinesFrom(t, p + Len(LineFrom(t, p)) + 1)

\* the position after the list that begins at p
ListEnd(t, p) ==
    LET ls == ItemLinesFrom(t, p)
        chars == [k \in 1..Len(ls) |-> Len(ls[k]) + 1]
        RECURSIVE Sum(_)
        Sum(k) == IF k = 0 THEN 0 ELSE chars[k] + Sum(k - 1)
    IN  Min(p + Sum(Len(ls)), Len(t) + 1)

\* a list item line without its leading blanks and marker, trimmed
ItemText(line) ==
    LET body == {i \in 1..Len(line) :
                    \E k \in 1..i : line[k] \notin {" ", "-", "*", "1", "2", "3",
                                                    "BULLET", ".", ")"}}
        lead == {i \in 1..Len(line) : \A k \in 1..i : line[k] = " "}
        marked == Cardinality(lead) < Len(line)
                      /\ line[Cardinality(lead) + 1] \in {"-", "*", "1", "2", "3",
                                                          "BULLET", ".", ")"}
        unmarked == {i \in 1..Len(line) :
                        i > Cardinality(lead)
                        /\ \E k \in (Cardinality(lead) + 1)..i :
                               line[k] \notin {"-", "*", "1", "2", "3", "BULLET", ".", ")"}}
    IN  IF ~marked THEN Trimmed(line)
        ELSE IF unmarked = {} THEN <<>>
        ELSE Trimmed(Part(line, CHOOSE i \in unmarked : \A j \in unmarked : i <= j,
                          Len(line)))

ItemTexts(ls) == [k \in 1..Len(ls) |-> ItemText(ls[k])]

RECURSIVE NonEmpty(_)
NonEmpty(ts) ==
    IF ts = <<>> THEN <<>>
    ELSE (IF Head(ts) = <<>> THEN <<>> ELSE <<Head(ts)>>) \o NonEmpty(Tail(ts))

\* the text without its first headed list
WithoutHeadedList(t) ==
    LET b == FirstHeadedList(t)
        e == ListEnd(t, b[2])
    IN  Part(t, 1, b[1] - 1) \o Part(t, e, Len(t))

\* the lines that begin with the file header marker "--- " or "+++ "
HeaderStarts(t) ==
    {i \in LineStarts(t) :
        /\ i + 3 <= Len(t)
        /\ t[i] \in {"-", "+"}
        /\ t[i + 1] = t[i] /\ t[i + 2] = t[i] /\ t[i + 3] = " "}

FirstHeaderStart(t) == CHOOSE i \in HeaderStarts(t) : \A j \in HeaderStarts(t) : i <= j

\* what is left of a text for the next-steps extraction: the text itself outside
\* patch mode; in patch mode the text around its first fenced diff, trimmed, or
\* else the lines before its first file header line
Remainder(t, m) ==
    IF m # "patch" THEN t
    ELSE IF FencedDiffs(t) # {}
    THEN LET b == FirstFencedDiff(t)
         IN  Trimmed(Part(t, 1, b[1] - 1) \o Part(t, b[2] + 1, Len(t)))
    ELSE IF HeaderStarts(t) # {}
    THEN Part(t, 1, FirstHeaderStart(t) - 2)
    ELSE t

TheNextActions == TheResult.final_response.next_actions

NextActionsOf(t) ==
    IF HeadedLists(t) = {} THEN <<>>
    ELSE ItemTexts(ItemLinesFrom(t, FirstHeadedList(t)[2]))

(***************************************************************************)
(* C21, as stated: in every mode, for a text that holds a next-actions     *)
(* heading followed by n >= 1 list item lines, compose yields exactly n    *)
(* next_actions, each the corresponding line without its leading marker,   *)
(* trimmed, in the original order, and the heading and its list are        *)
(* removed from answer_text.                                               *)
(***************************************************************************)
C21_Original ==
    pc = "composed" /\ HeadedLists(final_text) # {} =>
        /\ TheNextActions = NextActionsOf(final_text)
        /\ mode # "patch" => TheAnswer = Trimmed(WithoutHeadedList(final_text))

(***************************************************************************)
(* C21, amended: the next-actions extraction works on what patch           *)
(* extraction left of the text (the whole text outside patch mode).  When  *)
(* that remainder holds a heading followed by list item lines, the         *)
(* next_actions are those lines without their leading marker, trimmed, in  *)
(* order, the lines that hold nothing but a marker left out, and           *)
(* answer_text is the remainder without the heading and its list, trimmed. *)
(* When it holds none, next_actions is empty and answer_text is the        *)
(* remainder, trimmed.                                                     *)
(***************************************************************************)
C21_NextActionsOfRemainder ==
    pc = "composed" =>
        LET r == Remainder(final_text, mode)
        IN  IF HeadedLists(r) # {}
            THEN /\ TheNextActions = NonEmpty(NextActionsOf(r))
                 /\ TheAnswer = Trimmed(WithoutHeadedList(r))
            ELSE /\ TheNextActions = <<>>
                 /\ TheAnswer = Trimmed(r)

\* a heading, an item and a marker-only item: one next action, nothing left
C21_Witness ==
    /\ pc = "composed" /\ mode = "suggest"
    /\ final_text = HeadingLine \o ItemLine \o BareItemLine
    /\ TheNextActions = <<<<"a">>>>
    /\ TheAnswer = <<>>

(***************************************************************************)
(* Two runs against one session file, each through its own SessionManager: *)
(* a manager loads the file into its own state (load_session), and the     *)
(* session update of its run is add_query then add_evidence, each of which *)
(* changes the manager's state and writes it over the file (save_session). *)
(* The steps of the two managers interleave in any order.  The file is     *)
(* session_file, session_state[r] the state of manager r, contents[r] what *)
(* it loaded, query[r] and result[r] the query and the file references of  *)
(* its run.                                                                *)
(***************************************************************************)
Managers == {1, 2}

RunQueries == <<"Where is auth handled?", "Where is the config read?">>

\* the file references a run may add
RunRefs == {<<>>, <<LineRef(1)>>, <<LineRef(2)>>, <<LineRef(1), LineRef(2)>>}

InitShared ==
    /\ pc = [r \in Managers |-> "new"]
    /\ session_file \in PriorSessionStates
    /\ session_state = [r \in Managers |-> None]
    /\ contents = [r \in Managers |-> None]
    /\ query = RunQueries
    /\ result \in [Managers -> RunRefs]
    /\ has_session = TRUE
    /\ mode = "explain" /\ scope = "include-pr"
    /\ max_turns = 0
    /\ turn = 0
    /\ executed_calls = <<>>
    /\ raw_plan = <<>>
    /\ final_text = SessionSummary
    /\ pending = <<>>
    /\ response_parts = <<>>
    /\ events = <<>>
    /\ parts_seen = 0

\* SessionManager.load_session: the manager's state is what the file holds
SharedLoad(r) ==
    /\ pc[r] = "new"
    /\ session_state' = [session_state EXCEPT ![r] = Some(session_file)]
    /\ contents' = [contents EXCEPT ![r] = Some(session_file)]
    /\ pc' = [pc EXCEPT ![r] = "loaded"]
    /\ UNCHANGED <<has_session, session_file, query, mode, scope, max_turns, turn,
                   executed_calls, raw_plan, final_text, pending, response_parts,
                   events, parts_seen, result>>

\* run, lines 200-203: add_query on the manager's state, saved over the file
SharedAddQuery(r) ==
    /\ pc[r] = "loaded"
    /\ LET saved == AddQuery(session_state[r][1], query[r], Take(final_text, SummaryLen))
       IN  /\ session_state' = [session_state EXCEPT ![r] = Some(saved)]
           /\ session_file' = saved
    /\ pc' = [pc EXCEPT ![r] = "queried"]
    /\ UNCHANGED <<has_session, query, mode, scope, max_turns, turn, contents,
                   executed_calls, raw_plan, final_text, pending, response_parts,
                   events, parts_seen, result>>

\* run, lines 204-207: add_evidence on the manager's state, saved over the file
SharedAddEvidence(r) ==
    /\ pc[r] = "queried"
    /\ LET saved == AddEvidence(session_state[r][1], result[r])
       IN  /\ session_state' = [session_state EXCEPT ![r] = Some(saved)]
           /\ session_file' = saved
    /\ pc' = [pc EXCEPT ![r] = "done"]
    /\ UNCHANGED <<has_session, query, mode, scope, max_turns, turn, contents,
                   executed_calls, raw_plan, final_text, pending, response_parts,
                   events, parts_seen, result>>

NextShared ==
    \/ \E r \in Managers : SharedLoad(r)
    \/ \E r \in Managers : SharedAddQuery(r)
    \/ \E r \in Managers : SharedAddEvidence(r)

SpecShared == InitShared /\ [][NextShared]_vars

BothDone == \A r \in Managers : pc[r] = "done"

PersistedQueries ==
    {session_file.recent_queries[i].query : i \in 1..Len(session_file.recent_queries)}

PersistedRefs ==
    {session_file.selected_evidence_refs[i] :
        i \in 1..Len(session_file.selected_evidence_refs)}

KeepsRun(r) ==
    /\ query[r] \in PersistedQueries
    /\ \A i \in 1..Len(result[r]) : result[r][i] \in PersistedRefs

(***************************************************************************)
(* C22: when two runs against the same session execute concurrently, each  *)
(* through its own SessionManager that loaded the same session file, then  *)
(* after both runs finish the persisted session holds the query of each    *)
(* run and the file evidence references of each run: no run's update is    *)
(* overwritten by the other.                                               *)
(***************************************************************************)
C22_NoLostUpdate ==
    BothDone /\ contents[1] = contents[2] => \A r \in Managers : KeepsRun(r)

\* what holds instead: the persisted session is the state of the manager that
\* saved last, so it holds that run's update
C22_LastWriterWins ==
    BothDone => \E r \in Managers : session_file = session_state[r][1] /\ KeepsRun(r)

(***************************************************************************)
(* The start of a run against a session that has recorded k earlier        *)
(* queries, 0 <= k <= MaxHistory, or without a session.                    *)
(***************************************************************************)
MaxHistory == 6

\* the session after k add_query calls; query i has the summary of i characters
RECURSIVE Recorded(_)
Recorded(k) ==
    IF k = 0 THEN NewSessionState("explain", "include-pr")
    ELSE AddQuery(Recorded(k - 1), k, AnswerOfLength(k))

InitPrompt ==
    /\ pc = "idle"
    /\ has_session \in BOOLEAN
    /\ session_state \in {Recorded(k) : k \in 0..MaxHistory}
    /\ session_file = session_state
    /\ query = "" /\ mode = "" /\ scope = "" /\ max_turns = 0
    /\ turn = 0
    /\ contents = <<>>
    /\ executed_calls = <<>>
    /\ raw_plan = <<>>
    /\ final_text = <<>>
    /\ pending = <<>>
    /\ response_parts = <<>>
    /\ events = <<>>
    /\ parts_seen = 0
    /\ result = None

NextPrompt ==
    \E q \in Queries, m \in StartModes, sc \in StartScopes, mt \in 0..MaxTurns :
        Start(q, m, sc, mt)

SpecPrompt == InitPrompt /\ [][NextPrompt]_vars

\* the instruction text of the run, and the query/summary pairs it holds
TheInstruction == contents[1].parts[1].text
PairsIn(history) == [i \in 1..Len(history) |-> <<history[i].query, history[i].summary>>]

\* the pairs of the n most recent of the recorded queries, in recorded order
MostRecentPairs(recorded, n) ==
    LET k == Len(recorded)
        kept == IF k < n THEN k ELSE n
    IN  [i \in 1..kept |-> <<recorded[k - kept + i].query, recorded[k - kept + i].summary>>]

(***************************************************************************)
(* C23: the instruction text built at the start of a run holds the         *)
(* query/summary pairs of the min(3, k) most recent of the k queries       *)
(* recorded in the attached session, in recorded order; it holds no        *)
(* history when k = 0 or when no session is attached; building it writes   *)
(* nothing to the session.                                                 *)
(***************************************************************************)
C23_PromptHistory ==
    pc = "loop" =>
        /\ PairsIn(TheInstruction.history) =
               IF has_session THEN MostRecentPairs(session_state.recent_queries, 3)
               ELSE <<>>
        /\ Saves = <<>>
        /\ session_file = session_state
        /\ session_state = Recorded(Len(session_state.recent_queries))

\* six recorded queries: the text holds the fourth, fifth and sixth
C23_Witness ==
    /\ pc = "loop" /\ has_session
    /\ Len(session_state.recent_queries) = 6
    /\ PairsIn(TheInstruction.history) =
           <<<<4, AnswerOfLength(4)>>, <<5, AnswerOfLength(5)>>, <<6, AnswerOfLength(6)>>>>

(***************************************************************************)
(* C24, as stated: the terminal text is recorded only from a response that *)
(* holds only text; a response that holds one or more tool-call requests   *)
(* never sets or changes the terminal text.                                *)
(***************************************************************************)
\* this step is a loop call of the responder that answered with tool calls
ToolCallTurn ==
    /\ Len(LoopCalls') = Len(LoopCalls) + 1
    /\ RequestedCalls(LoopCalls'[Len(LoopCalls')].response) # <<>>

C24_Original == [][ToolCallTurn => final_text' = final_text]_vars

(***************************************************************************)
(* C24, amended: the terminal text is recorded from every loop response    *)
(* that holds text parts, whether it holds only text (the loop then ends)  *)
(* or tool-call requests as well (lines 145-146, the loop goes on): it is  *)
(* the text parts of the last such response joined by newlines, and a      *)
(* response with tool calls and no text leaves it unchanged.  The text     *)
(* handed to the composer is that text, followed by the text of the        *)
(* fallback response when the fallback was called.                         *)
(***************************************************************************)
TextOfLoop == AccumulatedBefore(Len(LoopCalls) + 1)

C24_TerminalTextOfLastTextTurn ==
    LET calls == LoopCalls
        text == TextOfLoop
    IN
    /\ pc \in {"loop", "dispatch", "finalize"} => final_text = text
    /\ \A k \in 1..Len(calls) : IsTextOnly(calls[k].response) => k = Len(calls)
    /\ pc = "done" =>
          /\ TextAfterLoop = text
          /\ final_text = text \o Flatten(FallbackFragments)

\* a run of one turn that ends without a fallback: the response holds a tool
\* call and a text, and the text is the terminal text and the answer
C24_Witness ==
    /\ pc = "done"
    /\ Len(LoopCalls) = 1 /\ FallbackCalls = <<>>
    /\ Len(RequestedCalls(LoopCalls[1].response)) = 1
    /\ final_text = <<"a">>
    /\ TheResult.final_response.answer_text = <<"a">>

(***************************************************************************)
(* C25: the tool calls of a turn are dispatched one at a time in the order *)
(* the responder returned them; all dispatches of turn k are complete      *)
(* before the responder call of turn k+1 starts; each tool-call turn adds  *)
(* exactly two entries to the conversation, the responder's raw turn and   *)
(* then one tool-response turn that holds one response per requested call  *)
(* in request order; text-only and empty responses add nothing to the      *)
(* conversation inside the loop.                                           *)
(***************************************************************************)
IsToolTurn(calls, k) == RequestedCalls(calls[k].response) # <<>>
ToolTurnsBefore(calls, k) == {j \in 1..(k - 1) : IsToolTurn(calls, j)}
ToolTurnCount == Cardinality(ToolTurnsBefore(LoopCalls, Len(LoopCalls) + 1))

\* the loop call that is the j-th tool-call turn
ToolTurnAt(calls, j) ==
    CHOOSE k \in 1..Len(calls) :
        IsToolTurn(calls, k) /\ Cardinality(ToolTurnsBefore(calls, k)) = j - 1

NamesOfCalls(cs) == [i \in 1..Len(cs) |-> cs[i].tool_name]
NamesOfResponses(ps) == [i \in 1..Len(ps) |-> ps[i].function_response.name]

C25_TurnsAreSequential ==
    [](LET calls == LoopCalls
        turns == Cardinality(ToolTurnsBefore(calls, Len(calls) + 1))
    IN
    \* a responder call sees the prompt and two entries per earlier tool-call turn
    /\ \A k \in 1..Len(calls) :
          calls[k].conversation = 1 + 2 * Cardinality(ToolTurnsBefore(calls, k))
    /\ pc \in {"loop", "finalize"} =>
          /\ Len(contents) = 1 + 2 * turns
          /\ pending = <<>> /\ response_parts = <<>>
    /\ pc = "dispatch" =>
          /\ Len(contents) = 2 * turns
          /\ IsToolTurn(calls, Len(calls))
          /\ NamesOfResponses(response_parts) \o NamesOfCalls(PendingCalls)
                 = NamesOfCalls(RequestedCalls(calls[Len(calls)].response))
          /\ pending # <<>>
    /\ \A j \in 1..turns :
          LET asked == calls[ToolTurnAt(calls, j)].response
          IN  /\ contents[2 * j].role = "model"
              /\ contents[2 * j].parts = PartsOf(asked)
              /\ 2 * j + 1 <= Len(contents) =>
                    /\ contents[2 * j + 1].role = "user"
                    /\ NamesOfResponses(contents[2 * j + 1].parts)
                           = NamesOfCalls(RequestedCalls(asked))
    \* the dispatches so far are those of the calls requested and not pending
    /\ Len(executed_calls) + Len(pending) = Len(RequestedFrom(calls, 1)))

\* two tool-call turns, the second with two different calls, then
\* the fallback: prompt, two entries per turn, the fallback request
C25_Witness ==
    /\ pc = "done"
    /\ Len(LoopCalls) = 2 /\ ToolTurnCount = 2
    /\ Len(contents) = 6
    /\ Len(contents[5].parts) = 2
    /\ contents[5].parts[1].function_response.name # contents[5].parts[2].function_response.name

\* a response whose parts hold neither call nor text, then a text-only one: the
\* conversation is the prompt alone
C25_WitnessNoToolTurn ==
    /\ pc = "done"
    /\ Len(LoopCalls) = 2 /\ ToolTurnCount = 0
    /\ IsTextOnly(LoopCalls[2].response)
    /\ Len(contents) = 1

(***************************************************************************)
(* C26: citations appear in consolidated_evidence in first-seen order over *)
(* the executed calls, and for each natural key the citation kept is the   *)
(* one built from its first occurrence; so _consolidate_evidence(xs) is a  *)
(* prefix of _consolidate_evidence(xs ++ ys) for all lists xs and ys.      *)
(* Stated on a list, its first k entries and each entry alone: the         *)
(* evidence of the first k entries begins the evidence of the list, and    *)
(* the evidence of the list is, call after call, the citations of that     *)
(* call alone whose key no earlier call has cited.                         *)
(***************************************************************************)
KeysOf(cs) == {NaturalKey(cs[i]) : i \in 1..Len(cs)}

RECURSIVE Unseen(_, _)
Unseen(cs, keys) ==
    IF cs = <<>> THEN <<>>
    ELSE (IF NaturalKey(Head(cs)) \in keys THEN <<>> ELSE <<Head(cs)>>)
             \o Unseen(Tail(cs), keys)

RECURSIVE FirstSeenFrom(_, _, _)
FirstSeenFrom(each, k, keys) ==
    IF k > Len(each) THEN <<>>
    ELSE LET new == Unseen(each[k], keys)
         IN  new \o FirstSeenFrom(each, k + 1, keys \cup KeysOf(new))

Begins(a, b) == Len(a) <= Len(b) /\ \A i \in 1..Len(a) : a[i] = b[i]

C26_FirstSeenOrder ==
    pc = "parts" =>
        /\ Begins(TheResult.evidence_of_prefix, TheResult.evidence)
        /\ TheResult.evidence = FirstSeenFrom(TheResult.evidence_of_each, 1, {})
        \* the matches of one search are cited in the order of the result
        /\ \A i \in 1..Len(executed_calls) :
              executed_calls[i].tool_name = "search_repo"
                  /\ "results" \in DOMAIN executed_calls[i].result =>
                  [j \in 1..Len(TheResult.evidence_of_each[i]) |->
                      <<TheResult.evidence_of_each[i][j].file_path,
                        TheResult.evidence_of_each[i][j].snippet>>]
                  = [j \in 1..Len(executed_calls[i].result.results) |->
                      <<executed_calls[i].result.results[j].file_path,
                        executed_calls[i].result.results[j].snippet>>]

\* auth.py 1-10 opened, then found by a search with another snippet: the first
\* call alone gives the first citation of the two, with the opened text
C26_Witness ==
    /\ pc = "parts"
    /\ Len(executed_calls) = 2
    /\ executed_calls[1].tool_name = "open_file"
    /\ executed_calls[2].tool_name = "search_repo"
    /\ TheResult.prefix = 1
    /\ Len(TheResult.evidence_of_prefix) = 1
    /\ Len(TheResult.evidence) = 2
    /\ HasSpan(TheResult.evidence[1], "auth.py", 1, 10)
    /\ TheResult.evidence[1].snippet # <<"a">>
    /\ TheResult.evidence[2].file_path = "middleware.py"

(***************************************************************************)
(* C27: an executed call contributes no citation when its result is an     *)
(* error result, is not a map, or lacks the key expected for its tool name *)
(* (results for search_repo, file_path for open_file, issues for           *)
(* get_issues, pull_requests for get_pull_requests), and when its tool is  *)
(* get_repo_stats, list_files or unknown; the evidence of a list in which  *)
(* every call failed is empty.                                             *)
(***************************************************************************)
ExpectedKeys ==
    [search_repo |-> "results", open_file |-> "file_path", get_issues |-> "issues",
     get_pull_requests |-> "pull_requests"]

IsErrorResult(r) == "not_a_dict" \notin DOMAIN r /\ "error" \in DOMAIN r

ContributesNothing(call) ==
    \/ "not_a_dict" \in DOMAIN call.result
    \/ "error" \in DOMAIN call.result
    \/ call.tool_name \notin DOMAIN ExpectedKeys
    \/ ExpectedKeys[call.tool_name] \notin DOMAIN call.result

Contributors == {i \in 1..Len(executed_calls) : ~ContributesNothing(executed_calls[i])}

C27_FailedCallsCiteNothing ==
    pc = "parts" =>
        /\ \A i \in 1..Len(executed_calls) :
              ContributesNothing(executed_calls[i]) => TheResult.evidence_of_each[i] = <<>>
        /\ \A j \in 1..Len(TheResult.evidence) :
              \E i \in Contributors :
                  NaturalKey(TheResult.evidence[j]) \in KeysOf(TheResult.evidence_of_each[i])
        /\ (\A i \in 1..Len(executed_calls) : IsErrorResult(executed_calls[i].result)) =>
              TheResult.evidence = <<>>

\* a refused issue lookup, a file that is not found and an unknown tool: three
\* failed calls, no evidence
C27_Witness ==
    /\ pc = "parts"
    /\ Len(executed_calls) = 3
    /\ executed_calls[1].tool_name = "get_issues"
    /\ executed_calls[2].tool_name = "open_file"
    /\ executed_calls[3].tool_name = "rm_rf"
    /\ \A i \in 1..3 : executed_calls[i].error # None
    /\ TheResult.evidence = <<>>

\* a result that is no dict, the repository statistics and a file listing
C27_WitnessNoError ==
    /\ pc = "parts"
    /\ Len(executed_calls) = 3
    /\ ~IsDict(executed_calls[1].result)
    /\ executed_calls[2].tool_name = "get_repo_stats"
    /\ executed_calls[3].tool_name = "list_files"
    /\ \A i \in 1..3 : executed_calls[i].error = None
    /\ TheResult.evidence = <<>>

(***************************************************************************)
(* C28: the error of an executed tool call is set if and only if the       *)
(* dispatcher caught a failure for that call (an exception of the gateway, *)
(* a scope violation or an unknown tool), and it is then the error message *)
(* of the result; a call that succeeded has no error.                      *)
(***************************************************************************)
\* the message of the failure the dispatcher catches for a call, if any
FailureOf(c, sc) ==
    IF c.tool_name \notin KnownTools THEN Some("Unknown tool: " \o c.tool_name)
    ELSE IF sc = "files-only" /\ c.tool_name \in TrackerTools
    THEN Some(c.tool_name \o " not available in files-only scope")
    ELSE LET raised == {out \in GatewayOutcomes(c.tool_name, c.args) : out.raised}
         IN  IF raised = {} THEN None ELSE Some((CHOOSE out \in raised : TRUE).msg)

C28_ErrorIffFailure ==
  [](
    /\ \A i \in 1..Len(executed_calls) :
          LET c == executed_calls[i]
          IN  /\ c.error = FailureOf(c, scope)
              /\ c.error # None <=> "error" \in DOMAIN c.result
              /\ c.error # None => c.result = [error |-> c.error[1]]
    /\ result # None => TheResult.executed_tool_calls = executed_calls)

\* a finished run with a search that succeeded and a file that was not found
C28_Witness ==
    /\ pc = "done"
    /\ Len(executed_calls) = 2
    /\ executed_calls[1].tool_name = "search_repo" /\ executed_calls[1].error = None
    /\ executed_calls[2].tool_name = "open_file"
    /\ executed_calls[2].error = Some("File not found: nope.py")
    /\ TheResult.executed_tool_calls[2].result = [error |-> "File not found: nope.py"]

(***************************************************************************)
(* C29: a dispatch of a recognized tool that is in scope invokes exactly   *)
(* one gateway operation, the one of the tool name; a dispatch of an       *)
(* unknown tool name invokes none and returns the error                    *)
(* 'Unknown tool: <name>'; a dispatch that violates the scope invokes      *)
(* none; no dispatch invokes more than one.  Stated of _execute_tool for   *)
(* every tool name, argument map, scope and gateway outcome, and of the    *)
(* gateway calls of a run against its executed calls.                      *)
(***************************************************************************)
OperationOf ==
    [search_repo |-> "search_repo", open_file |-> "open_file", get_issues |-> "get_issues",
     get_pull_requests |-> "get_pull_requests", get_repo_stats |-> "stats",
     list_files |-> "list_files"]

DispatchNames == DOMAIN OperationOf \cup {"rm_rf", "stats"}

DispatchArgs == ArgMaps \cup {[path |-> "auth.py"], [path |-> "nope.py"]}

\* the gateway operations a dispatch is to invoke
ExpectedOps(name, sc) ==
    IF name \notin DOMAIN OperationOf THEN <<>>
    ELSE IF sc = "files-only" /\ name \in {"get_issues", "get_pull_requests"} THEN <<>>
    ELSE <<OperationOf[name]>>

RECURSIVE ExpectedOpsOfCalls(_, _)
ExpectedOpsOfCalls(calls, sc) ==
    IF calls = <<>> THEN <<>>
    ELSE ExpectedOps(Head(calls).tool_name, sc) \o ExpectedOpsOfCalls(Tail(calls), sc)

GatewayOps ==
    LET calls == SelectSeq(events, IsGatewayCall)
    IN  [i \in 1..Len(calls) |-> calls[i].op]

\* _execute_tool on its own; it reads no state, so it is looked at once, before
\* the run starts
C29_OneOperationPerDispatch ==
  [](
    /\ pc = "idle" =>
          \A name \in DispatchNames, a \in DispatchArgs, sc \in SCOPES :
              \A out \in GatewayOutcomes(name, a) :
                  LET done == ExecuteTool(name, a, sc, out)
                  IN  /\ done.ops = ExpectedOps(name, sc)
                      /\ Len(done.ops) <= 1
                      /\ name \notin DOMAIN OperationOf =>
                            done.outcome = Returned([error |-> "Unknown tool: " \o name])
    \* the gateway calls of a run: the statistics of the prompt, then one per
    \* executed call that is recognized and in scope, in order
    /\ pc # "idle" =>
          GatewayOps = IF mode \in MODES /\ scope \in SCOPES
                       THEN <<"stats">> \o ExpectedOpsOfCalls(executed_calls, scope)
                       ELSE <<>>)

\* a finished files-only run: a search, a refused issue lookup and an unknown
\* tool make one gateway call after the statistics
C29_Witness ==
    /\ pc = "done" /\ scope = "files-only"
    /\ Len(executed_calls) = 3
    /\ {executed_calls[i].tool_name : i \in 1..3} = {"search_repo", "get_issues", "rm_rf"}
    /\ GatewayOps = <<"stats", "search_repo">>

(***************************************************************************)
(* C30: in patch mode, for a text without a fenced diff block, the line    *)
(* scan splits the text at the first line that begins with "--- " or       *)
(* "+++ ": patch_diff is that line and every line after it, the prose is   *)
(* every line before it, and the prose lines followed by the diff lines    *)
(* are the lines of the text, nothing lost and nothing duplicated, also    *)
(* when later lines are prose or a next-actions block: the prose, a line   *)
(* break and the diff make up the text, up to its final line break.        *)
(***************************************************************************)
\* the lines of a text from position i on, a final line break ending the last
RECURSIVE LinesAfter(_, _)
LinesAfter(t, i) ==
    IF i > Len(t) THEN <<>>
    ELSE <<LineFrom(t, i)>> \o LinesAfter(t, i + Len(LineFrom(t, i)) + 1)

LinesOf(t) == LinesAfter(t, 1)

IsHeaderLine(l) ==
    Len(l) >= 4 /\ l[1] \in {"-", "+"} /\ l[2] = l[1] /\ l[3] = l[1] /\ l[4] = " "

FromTo(ls, a, b) == [i \in 1..(b - a + 1) |-> ls[a + i - 1]]

TheExtracted == TheResult.extracted

C30_LineScanSplits ==
    /\ pc = "extracted" /\ FencedDiffs(final_text) = {} =>
          LET ls == LinesOf(final_text)
              hs == {k \in 1..Len(ls) : IsHeaderLine(ls[k])}
          IN  IF hs = {}
              THEN TheExtracted = [patch |-> None, rest |-> final_text]
              ELSE LET k == CHOOSE x \in hs : \A y \in hs : x <= y
                       whole == IF k = 1 THEN TheExtracted.patch[1]
                                ELSE TheExtracted.rest \o <<"\n">> \o TheExtracted.patch[1]
                   IN  /\ TheExtracted.patch = Some(JoinedByNewline(FromTo(ls, k, Len(ls))))
                       /\ TheExtracted.rest = JoinedByNewline(FromTo(ls, 1, k - 1))
                       /\ final_text \in {whole, whole \o <<"\n">>}
    \* the diff of the line scan is the patch_diff of the response, as it is
    /\ pc = "composed" /\ mode = "patch" /\ FencedDiffs(final_text) = {}
           /\ HeaderStarts(final_text) # {} =>
          ThePatch = Some(JoinedByNewline(LinesAfter(final_text, FirstHeaderStart(final_text))))

\* an empty line, a header line, a next-steps heading: the heading goes with the
\* diff
C30_Witness ==
    /\ pc = "extracted"
    /\ final_text = <<"\n">> \o HeaderLine \o HeadingLine
    /\ TheExtracted.rest = <<>>
    /\ TheExtracted.patch = Some(<<"-", "-", "-", " ", "a", "\n", "Next Steps", ":">>)

\* a header line and a next-steps block in patch mode: the block is in patch_diff
C30_WitnessComposed ==
    /\ pc = "composed" /\ mode = "patch"
    /\ final_text = HeaderLine \o HeadingLine \o ItemLine
    /\ TheNextActions = <<>>
    /\ ThePatch = Some(<<"-", "-", "-", " ", "a", "\n", "Next Steps", ":", "\n",
                         "-", " ", "a">>)

(***************************************************************************)
(* C31: for a text that holds neither a fenced diff block nor a line that  *)
(* begins with "--- " or "+++ ", and no next-actions heading followed by a *)
(* list, compose returns in every mode no patch_diff, no next_actions and  *)
(* as answer_text the text with only the whitespace at its two ends        *)
(* removed.                                                                *)
(***************************************************************************)
IsPlainText(t) == FencedDiffs(t) = {} /\ HeaderStarts(t) = {} /\ HeadedLists(t) = {}

C31_PlainTextIsKept ==
    pc = "composed" /\ IsPlainText(final_text) =>
        /\ ThePatch = None
        /\ TheNextActions = <<>>
        /\ TheAnswer = Trimmed(final_text)

\* patch mode, a heading that no list follows: the text, trimmed, is the answer
C31_Witness ==
    /\ pc = "composed" /\ mode = "patch"
    /\ final_text = <<SP>> \o HeadingLine \o <<"a">>
    /\ ThePatch = None /\ TheNextActions = <<>>
    /\ TheAnswer = <<"Next Steps", ":", "\n", "a">>

\* a list without a heading, in a mode other than patch: the items stay
C31_WitnessList ==
    /\ pc = "composed" /\ mode = "explain"
    /\ final_text = ItemLine \o ItemLine
    /\ TheNextActions = <<>>
    /\ TheAnswer = <<"-", " ", "a", "\n", "-", " ", "a">>

(***************************************************************************)
(* C32: in patch mode the next-actions extraction works on the prose that  *)
(* patch extraction left, never on the patch.  patch_diff is what the      *)
(* fenced block or the line scan gives, whole, whatever headings and item  *)
(* lines it holds; next_actions are items of the prose only; and           *)
(* patch_diff is the same with and without a next-actions block in the     *)
(* prose: a block put in front of the text, a block put after a text with  *)
(* a fenced diff, and the block of the prose taken out of a text without a *)
(* fenced diff all leave patch_diff as it is.                              *)
(***************************************************************************)
\* the patch of a text, read off its fences and header lines alone
PatchOfText(t) ==
    IF FencedDiffs(t) # {}
    THEN LET b == FirstFencedDiff(t)
         IN  Some(Trimmed(Part(t, b[1] + 3, b[2] - 1)))
    ELSE IF HeaderStarts(t) # {}
    THEN Some(JoinedByNewline(LinesAfter(t, FirstHeaderStart(t))))
    ELSE None

ActionsBlock == HeadingLine \o ItemLine

\* the text without the next-actions block of its prose, for a text whose prose
\* is its beginning
WithoutBlockOfProse(t) ==
    LET r == Remainder(t, "patch")
        b == FirstHeadedList(r)
    IN  Part(t, 1, b[1] - 1) \o Part(t, ListEnd(r, b[2]), Len(t))

PatchDiffOf(t) == ComposeResponse(t, <<>>, "patch").patch_diff

C32_ActionsFromProseOnly ==
    pc = "composed" /\ mode = "patch" =>
        LET r == Remainder(final_text, "patch")
        IN  /\ ThePatch = PatchOfText(final_text)
            /\ TheNextActions =
                   IF HeadedLists(r) = {} THEN <<>> ELSE NonEmpty(NextActionsOf(r))
            /\ HeadedLists(Remainder(ActionsBlock \o final_text, "patch")) # {}
            /\ PatchDiffOf(ActionsBlock \o final_text) = ThePatch
            /\ FencedDiffs(final_text) # {} =>
                  /\ HeadedLists(Remainder(final_text \o <<"\n">> \o ActionsBlock, "patch")) # {}
                  /\ PatchDiffOf(final_text \o <<"\n">> \o ActionsBlock) = ThePatch
            /\ FencedDiffs(final_text) = {} /\ HeadedLists(r) # {} =>
                  PatchDiffOf(WithoutBlockOfProse(final_text)) = ThePatch

\* a next-actions block in the prose, then a header line: the item is a next
\* action and the patch is the header line
C32_Witness ==
    /\ pc = "composed" /\ mode = "patch"
    /\ final_text = HeadingLine \o ItemLine \o HeaderLine
    /\ TheNextActions = <<<<"a">>>>
    /\ ThePatch = Some(<<"-", "-", "-", " ", "a">>)
    /\ TheAnswer = <<>>

\* a heading followed by a header line, which begins as a list item does: the
\* line is the patch and no next action
C32_WitnessItemLikePatch ==
    /\ pc = "composed" /\ mode = "patch"
    /\ final_text = HeadingLine \o HeaderLine
    /\ TheNextActions = <<>>
    /\ ThePatch = Some(<<"-", "-", "-", " ", "a">>)
    /\ TheAnswer = <<"Next Steps", ":">>

(***************************************************************************)
(* C33: after any sequence of add_evidence calls on a session made by      *)
(* create_session, no two entries of selected_evidence_refs share the key  *)
(* (file_path, start_line, end_line).  A reference whose key is stored is  *)
(* not added again and leaves the stored order as it is: after a call the  *)
(* list is the end of the list before it, in the same order, followed by   *)
(* references of the batch whose keys were not stored, and a batch of      *)
(* stored keys only changes nothing.                                       *)
(***************************************************************************)
StoredRefs == session_state.selected_evidence_refs

KeysAreDistinct(refs) ==
    \A i, j \in 1..Len(refs) : KeyOfRef(refs[i]) = KeyOfRef(refs[j]) => i = j

KeysIn(refs) == {KeyOfRef(refs[i]) : i \in 1..Len(refs)}

StoredKeysStay ==
    events'[1].ev = "add_evidence" =>
        LET old == StoredRefs
            new == StoredRefs'
            batch == events'[1].refs
        IN  /\ \E n \in 0..Len(old) :
                  /\ n <= Len(new)
                  /\ \A i \in 1..n : new[i] = old[Len(old) - n + i]
                  /\ \A i \in (n + 1)..Len(new) :
                        /\ KeyOfRef(new[i]) \notin KeysIn(old)
                        /\ \E k \in 1..Len(batch) : new[i] = batch[k]
            /\ KeysIn(batch) \subseteq KeysIn(old) => new = old

C33_RefKeysAreUnique ==
    /\ [](pc = "session" => KeysAreDistinct(StoredRefs))
    /\ [][pc = "session" => StoredKeysStay]_vars

\* three calls that each hold the whole file or line 1 in another form: the
\* forms stored by the first call are the ones kept
C33_Witness ==
    /\ pc = "session"
    /\ EvidenceCalls = 3
    /\ events[1].refs = <<WholeFileRef, NotedRef(1), WholeFileRefNone,
                          LineRef(2 * EvidenceBatch + 1)>>
    /\ StoredRefs = <<WholeFileRef, NotedRef(1), LineRef(2 * EvidenceBatch + 1)>>

(***************************************************************************)
(* One SessionManager and its sessions directory: at most MaxManagerCalls  *)
(* calls of its operations, starting without an active session, and the    *)
(* start of a run of an orchestrator attached to it.  session_state is     *)
(* _state (NoState for None), session_file the files of the directory by   *)
(* session id, each the JSON document written, turn the number of calls    *)
(* made, result the outcome of the last call.                              *)
(***************************************************************************)
MaxManagerCalls == 4
MaxSessions == 2

\* create_session, lines 22-36: the fresh state with its session id
NewManagedState(id, m, sc) ==
    [k \in DOMAIN NewSessionState(m, sc) \cup {"session_id"} |->
        IF k = "session_id" THEN id ELSE NewSessionState(m, sc)[k]]

ManagerQueries == {"Where is auth handled?"}
ManagerBatches == {<<LineRef(1), WholeFileRef>>, <<WholeFileRefNone, NotedRef(2), LineRef(1)>>}
ManagerSettings ==
    {[mode |-> "patch"], [scope |-> "files-only", theme |-> "dark"], [verbose |-> TRUE]}
\* the ids asked of load_session: 0 is the id of no session
ManagerIds == 0..MaxSessions

InitManager ==
    /\ pc = "idle"
    /\ has_session = TRUE
    /\ session_state = NoState
    /\ session_file = <<>>
    /\ query = "" /\ mode = "" /\ scope = "" /\ max_turns = 0
    /\ turn = 0
    /\ contents = <<>>
    /\ executed_calls = <<>>
    /\ raw_plan = <<>>
    /\ final_text = <<>>
    /\ pending = <<>>
    /\ response_parts = <<>>
    /\ events = <<>>
    /\ parts_seen = 0
    /\ result = None

\* a call of the manager that is made and leaves the run state alone
ManagerCalled(call, raised) ==
    /\ pc = "idle"
    /\ turn < MaxManagerCalls
    /\ turn' = turn + 1
    /\ result' = Some([call |-> call, raised |-> raised])
    /\ UNCHANGED <<pc, has_session, query, mode, scope, max_turns, contents,
                   executed_calls, raw_plan, final_text, pending, response_parts,
                   events, parts_seen>>

\* a call that changes the state and ends with save_session, or raises at
\* _require_state
ManagerChanged(call, state) ==
    IF RequireState(session_state) # None
    THEN /\ ManagerCalled(call, RequireState(session_state))
         /\ UNCHANGED <<session_state, session_file>>
    ELSE /\ ManagerCalled(call, SaveSession(session_file, state).raised)
         /\ session_state' = state
         /\ session_file' = SaveSession(session_file, state).files

\* SessionManager.create_session: the id is one no session has
ManagerCreateSession(m, sc) ==
    LET state == NewManagedState(Len(session_file) + 1, m, sc)
    IN  /\ Len(session_file) < MaxSessions
        /\ ManagerCalled("create_session", SaveSession(session_file, state).raised)
        /\ session_state' = state
        /\ session_file' = SaveSession(session_file, state).files

\* SessionManager.load_session
ManagerLoadSession(id) ==
    /\ ManagerCalled("load_session", LoadSession(session_file, session_state, id).raised)
    /\ session_state' = LoadSession(session_file, session_state, id).state
    /\ UNCHANGED session_file

\* SessionManager.add_query
ManagerAddQuery(q, summary) ==
    /\ pc = "idle"
    /\ ManagerChanged("add_query", AddQuery(session_state, q, summary))

\* SessionManager.add_evidence
ManagerAddEvidence(refs) ==
    /\ pc = "idle"
    /\ ManagerChanged("add_evidence", AddEvidence(session_state, refs))

\* SessionManager.update_settings
ManagerUpdateSettings(kwargs) ==
    /\ pc = "idle"
    /\ ManagerChanged("update_settings", UpdateSettings(session_state, kwargs))

\* SessionManager.get_llm_context
ManagerGetLlmContext ==
    /\ ManagerCalled("get_llm_context", RequireState(session_state))
    /\ UNCHANGED <<session_state, session_file>>

\* SessionManager.save_session
ManagerSaveSession ==
    /\ ManagerCalled("save_session", SaveSession(session_file, session_state).raised)
    /\ session_file' = SaveSession(session_file, session_state).files
    /\ UNCHANGED session_state

NextManager ==
    \/ \E m \in {"explain", "patch"} : ManagerCreateSession(m, "include-pr")
    \/ \E id \in ManagerIds : ManagerLoadSession(id)
    \/ \E q \in ManagerQueries : ManagerAddQuery(q, SessionSummary)
    \/ \E refs \in ManagerBatches : ManagerAddEvidence(refs)
    \/ \E kwargs \in ManagerSettings : ManagerUpdateSettings(kwargs)
    \/ ManagerGetLlmContext
    \/ ManagerSaveSession
    \/ \E q \in Queries, m \in StartModes, sc \in StartScopes : Start(q, m, sc, 1)

SpecManager == InitManager /\ [][NextManager]_vars

(***************************************************************************)
(* C34: after every completed create_session, add_query, add_evidence and  *)
(* update_settings call the file of the active session holds the state    *)
(* the manager holds in memory: load_session of that id by a fresh         *)
(* SessionManager returns exactly that state, its recent_queries,          *)
(* selected_evidence_refs and user_settings.                               *)
(***************************************************************************)
WritingCalls == {"create_session", "add_query", "add_evidence", "update_settings"}

LastCallCompleted(calls) ==
    /\ pc = "idle"
    /\ result # None
    /\ TheResult.call \in calls
    /\ TheResult.raised = None

\* what load_session of the active id gives a manager that holds no state
FreshLoad == LoadSession(session_file, NoState, session_state.session_id)

C34_FileHoldsState ==
    LastCallCompleted(WritingCalls) =>
        /\ IsActive(session_state)
        /\ session_state.session_id \in 1..Len(session_file)
        /\ FreshLoad.raised = None
        /\ FreshLoad.state = session_state
        /\ FreshLoad.state.recent_queries = session_state.recent_queries
        /\ FreshLoad.state.selected_evidence_refs = session_state.selected_evidence_refs
        /\ FreshLoad.state.user_settings = session_state.user_settings

\* a session with a query, changed settings and references with line numbers,
\* with line numbers None and without line numbers
C34_Witness ==
    /\ LastCallCompleted({"add_evidence"})
    /\ session_state.recent_queries # <<>>
    /\ session_state.user_settings.verbose
    /\ session_state.selected_evidence_refs = <<WholeFileRefNone, NotedRef(2), LineRef(1)>>
    /\ session_file[1].selected_evidence_refs[1].start_line = "null"
    /\ session_file[1].selected_evidence_refs[3].start_line = "1"
    /\ session_file[1].user_settings.verbose = "true"

(***************************************************************************)
(* C35: on a SessionManager without an active session, add_query,          *)
(* add_evidence, update_settings, get_llm_context and save_session each    *)
(* fail with an error and create or change no session file; load_session   *)
(* of an unknown id fails with a not-found error and leaves the active     *)
(* state as it is; and a run of an orchestrator attached to a manager      *)
(* without an active session fails before any responder call.              *)
(***************************************************************************)
StateCalls ==
    {"add_query", "add_evidence", "update_settings", "get_llm_context", "save_session"}

\* the step is a call of the manager
ManagerStep == pc = "idle" /\ pc' = "idle" /\ turn' = turn + 1

CallWithoutState ==
    ManagerStep /\ ~IsActive(session_state) /\ result'[1].call \in StateCalls =>
        /\ result'[1].raised = Some("RuntimeError")
        /\ session_file' = session_file
        /\ session_state' = session_state

LoadThatFails ==
    ManagerStep /\ result'[1].call = "load_session" /\ result'[1].raised # None =>
        /\ result'[1].raised = Some("FileNotFoundError")
        /\ session_state' = session_state
        /\ session_file' = session_file

UnknownIds == {id \in ManagerIds : id \notin 1..Len(session_file)}

RunWithoutState ==
    pc # "idle" /\ ~IsActive(session_state) =>
        /\ pc = "failed"
        /\ LoopCalls = <<>> /\ FallbackCalls = <<>>
        /\ contents = <<>>
        /\ events[Len(events)].ev = "raise"
        /\ ValidArguments(mode, scope) => events[Len(events)].error = "RuntimeError"

C35_NoActiveSession ==
    /\ [](pc = "idle" =>
             \A id \in UnknownIds :
                 LoadSession(session_file, session_state, id)
                     = [state |-> session_state, raised |-> Some("FileNotFoundError")])
    /\ []RunWithoutState
    /\ [][CallWithoutState /\ LoadThatFails]_vars

\* a manager that was only asked to save, which failed, and a run with valid
\* arguments attached to it: the run failed after the statistics, no file exists
C35_Witness ==
    /\ pc = "failed"
    /\ ~IsActive(session_state)
    /\ mode \in MODES /\ scope \in SCOPES
    /\ result # None /\ TheResult.call = "save_session"
    /\ TheResult.raised = Some("RuntimeError")
    /\ events = <<[ev |-> "gateway", op |-> "stats"],
                  [ev |-> "raise", error |-> "RuntimeError"]>>
    /\ session_file = <<>>

\* an unknown id asked of a manager that holds a session with a query
C35_WitnessLoad ==
    /\ pc = "idle"
    /\ result # None /\ TheResult.call = "load_session"
    /\ TheResult.raised = Some("FileNotFoundError")
    /\ IsActive(session_state)
    /\ session_state.recent_queries # <<>>

(***************************************************************************)
(* Runs of at most one turn, those with max_turns below 1 among them: the  *)
(* steps of run with max_turns drawn from -1, 0 and 1.                     *)
(***************************************************************************)
ShortTurns == (0 - 1)..1

NextShortRuns ==
    \/ \E q \in Queries, m \in StartModes, sc \in StartScopes,
          mt \in ShortTurns : Start(q, m, sc, mt)
    \/ \E resp \in LoopResponses(MaxTotalParts - parts_seen) : LoopTurn(resp)
    \/ LoopTransportError
    \/ LoopExit
    \/ Dispatch
    \/ Finish
    \/ \E resp \in FallbackResponses(MaxTotalParts - parts_seen) : Fallback(resp)
    \/ FallbackTransportError

SpecShortRuns == Init /\ [][NextShortRuns]_vars

(***************************************************************************)
(* C36: run does not reject max_turns < 1.  With max_turns <= 0 and valid  *)
(* mode and scope the turn loop makes no responder call and dispatches no  *)
(* tool, the fallback request is issued exactly once, nothing but the      *)
(* fallback call can make the run fail, and the result has an empty        *)
(* tool_call_plan, empty executed_tool_calls and empty                     *)
(* consolidated_evidence.                                                  *)
(***************************************************************************)
\* the fallback requests issued: those answered and those that failed in transport
FallbackRequests ==
    Len(FallbackCalls)
        + Cardinality({i \in 1..Len(events) :
                          /\ events[i].ev = "raise"
                          /\ events[i].error = "transport"
                          /\ events[i].during = "fallback"})

C36_NoTurnsFallsBack ==
    pc # "idle" /\ ValidArguments(mode, scope) /\ max_turns <= 0 =>
        /\ LoopCalls = <<>>
        /\ GatewayOps = <<"stats">>
        /\ executed_calls = <<>> /\ raw_plan = <<>> /\ turn = 0
        /\ pc \in {"loop", "finalize"} => FallbackRequests = 0 /\ Len(contents) = 1
        /\ pc \in {"done", "failed"} =>
              /\ FallbackRequests = 1
              /\ Len(contents) = 2
              /\ contents[2] = UserTurn(<<[text |-> FallbackPrompt]>>)
        /\ pc = "failed" =>
              /\ result = None
              /\ events[Len(events)].ev = "raise"
              /\ events[Len(events)].error \in {"transport", "IndexError", "TypeError"}
        /\ pc = "done" =>
              /\ Len(FallbackCalls) = 1
              /\ FallbackCalls[1].conversation = 2
              /\ TheResult.tool_call_plan = <<>>
              /\ TheResult.executed_tool_calls = <<>>
              /\ TheResult.consolidated_evidence = <<>>
              /\ TheResult.final_response.citations = <<>>

\* a run with max_turns = -1 that returned the answer of its fallback
C36_Witness ==
    /\ pc = "done"
    /\ max_turns = 0 - 1
    /\ Len(FallbackCalls) = 1
    /\ TheResult.final_response.answer_text = <<"a">>
    /\ TheResult.tool_call_plan = <<>>

\* a run with max_turns = 0 whose fallback response held no parts: it failed,
\* after one fallback request
C36_WitnessFailed ==
    /\ pc = "failed"
    /\ max_turns = 0
    /\ Len(FallbackCalls) = 1
    /\ events[Len(events)] = [ev |-> "raise", error |-> "TypeError"]

(***************************************************************************)
(* C37: a loop response that has parts, none of them a tool-call request   *)
(* or a non-empty text, uses up its turn and leaves the conversation, the  *)
(* terminal text, the plan and the executed calls as they are; the loop    *)
(* goes on to the next turn and sends the same conversation again; it      *)
(* ends on such a response only when the turns are used up.                *)
(***************************************************************************)
IsIdlePart(part) ==
    /\ part.function_call = None
    /\ part.text = None \/ part.text[1] = <<>>

IsIdleResponse(resp) ==
    /\ resp.candidates /\ resp.parts # None /\ resp.parts[1] # <<>>
    /\ \A i \in 1..Len(resp.parts[1]) : IsIdlePart(resp.parts[1][i])

\* the step is a loop call of the responder that was answered idly
IdleTurn ==
    /\ Len(events') = Len(events) + 1
    /\ IsLoopCall(events'[Len(events')])
    /\ IsIdleResponse(events'[Len(events')].response)

IdleTurnChangesNothing ==
    IdleTurn =>
        /\ turn' = turn + 1
        /\ contents' = contents
        /\ final_text' = final_text
        /\ raw_plan' = raw_plan
        /\ executed_calls' = executed_calls
        /\ pending' = pending
        /\ pc' = "loop"

LoopGoesOnAfterIdleTurn ==
    LET calls == LoopCalls
    IN  \A k \in 1..Len(calls) :
            IsIdleResponse(calls[k].response) =>
                /\ k < Len(calls) =>
                      /\ calls[k + 1].turn = calls[k].turn + 1
                      /\ calls[k + 1].conversation = calls[k].conversation
                /\ k = Len(calls) /\ k < max_turns =>
                      \/ pc = "loop"
                      \/ /\ pc = "failed"
                         /\ events[Len(events)] =
                                [ev |-> "raise", error |-> "transport", during |-> "loop"]

C37_IdleTurnIsSkipped ==
    /\ [](pc = "idle" =>
             /\ FunctionCalls(<<TextPart(<<>>), EmptyPart>>) = <<>>
             /\ TextParts(<<TextPart(<<>>), EmptyPart>>) = <<>>
             /\ ~NoContent(Response(<<TextPart(<<>>)>>)))
    /\ []LoopGoesOnAfterIdleTurn
    /\ [][IdleTurnChangesNothing]_vars

\* a tool turn, then an idle response, then the fallback: the turns were used up,
\* and the conversation the idle turn saw is the one the fallback added to
C37_Witness ==
    /\ pc = "done"
    /\ max_turns = 2
    /\ Len(LoopCalls) = 2
    /\ RequestedCalls(LoopCalls[1].response) # <<>>
    /\ IsIdleResponse(LoopCalls[2].response)
    /\ LoopCalls[2].conversation = 3
    /\ Len(contents) = 4
    /\ Len(executed_calls) = 1

\* an idle response on turn 1 of 2, then an answer on turn 2, sent the prompt alone
C37_WitnessGoesOn ==
    /\ pc = "done"
    /\ max_turns = 2
    /\ Len(LoopCalls) = 2
    /\ IsIdleResponse(LoopCalls[1].response)
    /\ LoopCalls[2].conversation = 1
    /\ final_text = <<"a">>

(***************************************************************************)
(* The batch runner (run_task_batch.main).  pending holds the tasks: those *)
(* loaded before the selection, those not yet run after it; turn is idx;   *)
(* events holds what main did in program order: the selection, the session *)
(* set-up, each call of orchestrator.run with its outcome, each row        *)
(* written to the output.  A run is taken by its outcome: it raises, or it *)
(* returns a result after the session update of lines 199-207.             *)
(***************************************************************************)
MaxTasks == 3
\* the queries a resumed session holds already
OldQueryCount == 9

\* --default-mode and --default-scope
DefaultMode == "explain"
DefaultScope == "include-pr"

\* a task_id is a JSON string or a JSON number
TaskKinds ==
    {[task_id |-> [str |-> "t1"], question |-> "q1"],
     [question |-> "", user_query |-> "q2", mode |-> "patch", scope |-> "files-only"],
     [task_id |-> [num |-> 7], question |-> ""],
     [prompt |-> "q3", mode |-> "summarize"],
     [task_id |-> [str |-> "t5"]]}

RECURSIVE TaskListsOf(_)
TaskListsOf(n) ==
    IF n = 0 THEN {<<>>}
    ELSE {Append(ts, k) : ts \in TaskListsOf(n - 1), k \in TaskKinds}

BatchTaskLists == UNION {TaskListsOf(n) : n \in 0..MaxTasks}

\* str(v) of a JSON string or number
StrOf(v) == IF "num" \in DOMAIN v THEN ToString(v.num) ELSE v.str

\* line 154: str(task.get("task_id", f"task_{idx}"))
TaskIdOf(task, idx) ==
    IF "task_id" \in DOMAIN task THEN StrOf(task.task_id) ELSE "task_" \o ToString(idx)

\* task.get(k) is truthy
Truthy(task, k) == k \in DOMAIN task /\ task[k] # ""

\* line 155: question or user_query or prompt, None when none is truthy
QuestionOf(task) ==
    IF Truthy(task, "question") THEN Some(task.question)
    ELSE IF Truthy(task, "user_query") THEN Some(task.user_query)
    ELSE IF Truthy(task, "prompt") THEN Some(task.prompt)
    ELSE None

\* lines 156-157
ModeOf(task) == IF "mode" \in DOMAIN task THEN task.mode ELSE DefaultMode
ScopeOf(task) == IF "scope" \in DOMAIN task THEN task.scope ELSE DefaultScope

\* tasks[offset:] and tasks[:limit] for offset, limit >= 0
TasksFrom(tasks, offset) ==
    IF offset >= Len(tasks) THEN <<>> ELSE SubSeq(tasks, offset + 1, Len(tasks))

\* lines 104-107: the selection
SelectTasks(tasks, offset, limit) ==
    LET after_offset == IF offset # 0 THEN TasksFrom(tasks, offset) ELSE tasks
    IN  IF limit # None THEN Take(after_offset, limit[1]) ELSE after_offset

\* lines 160-166: the row of a task without a question
MissingQuestionRow(task_id) ==
    [task_id |-> task_id, status |-> "error", error |-> Some("missing question")]

\* lines 185-203: the row of a run that returned
OkRow(task_id, m, sc, question, outcome, session_id) ==
    [task_id |-> task_id, mode |-> m, scope |-> sc, status |-> "ok", error |-> None,
     question |-> question, answer_text |-> outcome.answer_text,
     tool_call_count |-> outcome.tool_calls, session_id |-> session_id]

\* lines 210-228: the row of a run that raised
RaisedRow(task_id, m, sc, question, error, session_id) ==
    [task_id |-> task_id, mode |-> m, scope |-> sc, status |-> "error",
     error |-> Some(error), question |-> question, answer_text |-> <<>>,
     tool_call_count |-> 0, session_id |-> session_id]

\* what a run with valid arguments does: it raises on the way, or it returns
\* a result with its answer, its executed calls and its evidence
RunOutcomes ==
    {[raised |-> Some("transport")],
     [raised |-> None, answer_text |-> <<"a">>, tool_calls |-> 1,
      evidence |-> <<Citation("f.py", Some(1), Some(1), <<>>, "file", None)>>],
     [raised |-> None, answer_text |-> <<>>, tool_calls |-> 0, evidence |-> <<>>]}

\* orchestrator.run as main sees it: ValueError for arguments that are not
\* valid (lines 95-98 of run), else the outcome
OutcomeOfRun(m, sc, outcome) ==
    IF ValidArguments(m, sc) THEN outcome ELSE [raised |-> Some("ValueError")]

\* the state of a session written by an earlier invocation
OldSessionState ==
    [NewManagedState(1, DefaultMode, DefaultScope) EXCEPT
        !.recent_queries =
            [i \in 1..OldQueryCount |-> [query |-> "old", summary |-> <<"a">>]]]

InitBatch ==
    /\ pc = "idle"
    /\ has_session = TRUE
    /\ session_state = NoState
    /\ session_file \in {<<>>, <<JsonDump(OldSessionState)>>}
    /\ query = "" /\ mode = "" /\ scope = "" /\ max_turns = 0
    /\ turn = 0
    /\ contents = <<>>
    /\ executed_calls = <<>>
    /\ raw_plan = <<>>
    /\ final_text = <<>>
    /\ pending \in BatchTaskLists
    /\ response_parts = <<>>
    /\ events = <<>>
    /\ parts_seen = 0
    /\ result = None

BatchUnchanged ==
    UNCHANGED <<has_session, query, mode, scope, max_turns, contents, executed_calls,
                raw_plan, final_text, response_parts, parts_seen, result>>

\* main, lines 104-145: the selection, the exit without tasks, the session
BatchStart(offset, limit, session_id) ==
    LET tasks == SelectTasks(pending, offset, limit)
        resumed == session_id # None /\ session_id[1] \in 1..Len(session_file)
        state == IF resumed
                 THEN LoadSession(session_file, session_state, session_id[1]).state
                 ELSE NewManagedState(Len(session_file) + 1, DefaultMode, DefaultScope)
    IN  /\ pc = "idle"
        /\ pending' = tasks
        /\ turn' = 0
        /\ IF tasks = <<>>
           THEN /\ pc' = "done"
                /\ events' = <<[ev |-> "exit", code |-> 0]>>
                /\ UNCHANGED <<session_state, session_file>>
           ELSE /\ pc' = "loop"
                /\ session_state' = state
                /\ session_file' = IF resumed THEN session_file
                                   ELSE SaveSession(session_file, state).files
                /\ events' = <<[ev |-> "select", tasks |-> tasks],
                               [ev |-> "session",
                                call |-> IF resumed THEN "load_session"
                                         ELSE "create_session",
                                state |-> state]>>
        /\ BatchUnchanged

\* a loop body that gives up the batch when a run raises
BatchTaskGivingUp(outcome) ==
    LET idx == turn + 1
        task == Head(pending)
        task_id == TaskIdOf(task, idx)
        question == QuestionOf(task)
        m == ModeOf(task)
        sc == ScopeOf(task)
        out == OutcomeOfRun(m, sc, outcome)
        sid == session_state.session_id
    IN  /\ pc = "loop" /\ pending # <<>>
        /\ turn' = idx
        /\ IF question = None
           THEN /\ events' = Append(events, [ev |-> "row", row |-> MissingQuestionRow(task_id)])
                /\ pending' = Tail(pending)
                /\ UNCHANGED <<session_state, session_file>>
           ELSE LET called == [ev |-> "run", idx |-> idx, question |-> question[1],
                               mode |-> m, scope |-> sc, raised |-> out.raised]
                IN  IF out.raised # None
                    THEN /\ events' = events \o
                              <<called, [ev |-> "row",
                                         row |-> RaisedRow(task_id, m, sc, question[1],
                                                           out.raised[1], sid)]>>
                         /\ pending' = <<>>
                         /\ UNCHANGED <<session_state, session_file>>
                    ELSE LET saves == UpdateSession(session_state, question[1],
                                                    out.answer_text, out.evidence)
                             state == saves[Len(saves)].saved
                         IN  /\ events' = events \o
                                   <<called, [ev |-> "row",
                                              row |-> OkRow(task_id, m, sc, question[1],
                                                            out, sid)]>>
                             /\ pending' = Tail(pending)
                             /\ session_state' = state
                             /\ session_file' = SaveSession(session_file, state).files
        /\ UNCHANGED pc
        /\ BatchUnchanged

\* main, lines 153-231: one task of the loop
BatchTask(outcome) ==
    LET idx == turn + 1
        task == Head(pending)
        task_id == TaskIdOf(task, idx)
        question == QuestionOf(task)
        m == ModeOf(task)
        sc == ScopeOf(task)
        out == OutcomeOfRun(m, sc, outcome)
        sid == session_state.session_id
    IN  /\ pc = "loop" /\ pending # <<>>
        /\ turn' = idx
        /\ pending' = Tail(pending)
        /\ IF question = None
           THEN /\ events' = Append(events, [ev |-> "row", row |-> MissingQuestionRow(task_id)])
                /\ UNCHANGED <<session_state, session_file>>
           ELSE LET called == [ev |-> "run", idx |-> idx, question |-> question[1],
                               mode |-> m, scope |-> sc, raised |-> out.raised]
                IN  IF out.raised # None
                    THEN /\ events' = events \o
                              <<called, [ev |-> "row",
                                         row |-> RaisedRow(task_id, m, sc, question[1],
                                                           out.raised[1], sid)]>>
                         /\ UNCHANGED <<session_state, session_file>>
                    ELSE LET saves == UpdateSession(session_state, question[1],
                                                    out.answer_text, out.evidence)
                             state == saves[Len(saves)].saved
                         IN  /\ events' = events \o
                                   <<called, [ev |-> "row",
                                              row |-> OkRow(task_id, m, sc, question[1],
                                                            out, sid)]>>
                             /\ session_state' = state
                             /\ session_file' = SaveSession(session_file, state).files
        /\ UNCHANGED pc
        /\ BatchUnchanged

\* main, line 233: the loop is over
BatchComplete ==
    /\ pc = "loop" /\ pending = <<>>
    /\ pc' = "done"
    /\ events' = Append(events, [ev |-> "complete"])
    /\ UNCHANGED <<session_state, session_file, turn, pending>>
    /\ BatchUnchanged

NextBatch ==
    \/ \E offset \in 0..1, limit \in {None, Some(MaxTasks - 1)},
          session_id \in {None, Some(1)} : BatchStart(offset, limit, session_id)
    \/ \E outcome \in RunOutcomes : BatchTask(outcome)
    \/ BatchComplete

SpecBatch == InitBatch /\ [][NextBatch]_vars

(***************************************************************************)
(* C38: the batch runner writes one output row per selected task, in task  *)
(* order; a task without a question gets an error row and no call of the   *)
(* orchestrator; a task whose run raises gets an error row with            *)
(* tool_call_count 0 and an empty answer; the tasks after either are still *)
(* run; the tasks share one session, whose recent queries after the batch  *)
(* are the last at most 10 questions of the runs that returned.            *)
(***************************************************************************)
IsBatchRow(e) == e.ev = "row"
IsBatchRun(e) == e.ev = "run"
BatchSelected == events[1].tasks
BatchSessionAtStart == events[2].state
BatchRows == SelectSeq(events, IsBatchRow)
BatchRuns == SelectSeq(events, IsBatchRun)
RunReturned(call) == call.raised = None
QuestionsReturned(runs) ==
    LET returned == SelectSeq(runs, RunReturned)
    IN  [i \in 1..Len(returned) |-> returned[i].question]
QueriesOf(state) == [i \in 1..Len(state.recent_queries) |-> state.recent_queries[i].query]

RowsFollowTasks(tasks, rows, runs, done) ==
    /\ Len(rows) = done
    /\ \A i \in 1..done :
          LET row == rows[i].row
              ran == {j \in 1..Len(runs) : runs[j].idx = i}
          IN  /\ row.task_id = TaskIdOf(tasks[i], i)
              /\ IF ~(\E k \in {"question", "user_query", "prompt"} : Truthy(tasks[i], k))
                 THEN /\ row.status = "error"
                      /\ ran = {}
                 ELSE /\ Cardinality(ran) = 1
                      /\ \A j \in ran :
                            /\ row.question = runs[j].question
                            /\ IF RunReturned(runs[j])
                               THEN row.status = "ok"
                               ELSE /\ row.status = "error"
                                    /\ row.tool_call_count = 0
                                    /\ row.answer_text = <<>>
    /\ \A j \in 1..Len(runs), k \in 1..Len(runs) : j < k => runs[j].idx < runs[k].idx

SessionHoldsReturned(runs) ==
    /\ QueriesOf(session_state) =
           LastAtMost(QueriesOf(BatchSessionAtStart) \o QuestionsReturned(runs),
                      MaxRecentQueries)
    /\ session_state.session_id = BatchSessionAtStart.session_id
    /\ JsonLoad(session_file[session_state.session_id]) = session_state

C38_BatchWritesOneRowPerTask ==
    /\ pc \in {"loop", "done"} /\ events[1].ev = "select" =>
          LET tasks == BatchSelected
              runs == BatchRuns
          IN  /\ RowsFollowTasks(tasks, BatchRows, runs, Len(tasks) - Len(pending))
              /\ SessionHoldsReturned(runs)
              /\ pc = "done" => pending = <<>>
    /\ pc = "done" /\ events[1].ev = "exit" => session_state = NoState /\ Len(events) = 1

\* a task without a question, a run that raises, then a run that returns: three
\* rows, one query in a fresh session
C38_Witness ==
    /\ pc = "done" /\ events[1].ev = "select"
    /\ Len(BatchSelected) = 3
    /\ Len(BatchRows) = 3
    /\ BatchRows[1].row = MissingQuestionRow("t5")
    /\ BatchRows[2].row.status = "error" /\ BatchRows[2].row.error = Some("transport")
    /\ BatchRows[3].row.status = "ok" /\ BatchRows[3].row.task_id = "task_3"
    /\ QueriesOf(session_state) = <<"q2">>

\* a resumed session that held 9 queries and two runs that returned: the oldest
\* query is gone
C38_WitnessResumed ==
    /\ pc = "done" /\ events[1].ev = "select"
    /\ events[2].call = "load_session"
    /\ Len(QuestionsReturned(BatchRuns)) = 2
    /\ Len(BatchSessionAtStart.recent_queries) = OldQueryCount
    /\ Len(session_state.recent_queries) = MaxRecentQueries
    /\ SubSeq(QueriesOf(session_state), MaxRecentQueries - 1, MaxRecentQueries) = <<"q1", "q2">>

\* arguments that are not valid: the run raises ValueError, the row is an error row
C38_WitnessValueError ==
    /\ pc = "done" /\ events[1].ev = "select"
    /\ \E i \in 1..Len(BatchRows) :
          /\ BatchRows[i].row.status = "error"
          /\ BatchRows[i].row.error = Some("ValueError")
          /\ BatchRows[i].row.mode = "summarize"
          /\ i < Len(BatchRows)

====
